---------------------------- MODULE Spec2Model ----------------------------
(***************************************************************************)
(* A model of the hooks and dev components of goodchuck-utils.             *)
(*                                                                         *)
(* Each hook or store is modelled as its own state machine over one record *)
(* variable whose fields carry the names the source uses.  A hook that is  *)
(* not the subject of a specification stays in its idle state there.       *)
(*                                                                         *)
(* Scheduling model: the browser main thread.  One action is one browser   *)
(* task (a timer callback, a DOM event, a call from the application)       *)
(* together with the React render and the effect cleanup/effect bodies it  *)
(* causes.  Time is a discrete clock, `now` (Date.now()); a timer armed    *)
(* with setTimeout(cb, d) at time t runs cb when the clock reads t + d,    *)
(* before the clock moves on.                                              *)
(***************************************************************************)
EXTENDS Integers, Sequences, FiniteSets, TLC

VARIABLES
    now,      \* Date.now()
    db,       \* one useDebounce instance
    thr,      \* one useThrottle instance
    st,       \* the storage hooks: a storage area and the hook instances of a tab
    log,      \* the API log store of ApiLogger.tsx
    cf,       \* one evaluation of getChangedFields
    co,       \* useClickOutside / useClickOutsideMultiple
    evl,       \* one useEventListener instance
    io,       \* one useIntersectionObserver instance
    cb,       \* one useCopyToClipboard instance
    pv,       \* one usePrevious instance
    mq,       \* one useMediaQuery instance
    ws,       \* one useWindowSize instance
    pu,       \* one call of a pure utility
    gm,       \* the mock generation of one FormDevTools
    ids       \* one IdSelector

vars == <<now, db, thr, st, log, cf, co, evl, io, cb, pv, mq, ws, pu, gm, ids>>

(***************************************************************************)
(* Bounds of the model.                                                    *)
(***************************************************************************)
MaxTime == 6          \* the clock runs from 0 to MaxTime
MaxDelay == 2         \* delays / intervals are drawn from 1..MaxDelay
MaxUpdates == 3       \* dependency updates of one timer hook (mount included)
MaxAdds == 103        \* addApiLog calls
MaxPending == 2       \* storage events awaiting delivery

InputValues == {"a", "b", "c"}
Delays == 1..MaxDelay

NoValue == "<none>"

(***************************************************************************)
(* Idle states of the hooks a specification does not exercise.             *)
(***************************************************************************)
ThrIdle == [idle |-> TRUE]
StIdle == [idle |-> TRUE]
LogIdle == [idle |-> TRUE]
CfIdle == [idle |-> TRUE]
CoIdle == [idle |-> TRUE]
ElIdle == [idle |-> TRUE]
IoIdle == [idle |-> TRUE]
CbIdle == [idle |-> TRUE]
PvIdle == [idle |-> TRUE]
MqIdle == [idle |-> TRUE]
WsIdle == [idle |-> TRUE]
PuIdle == [idle |-> TRUE]
GmIdle == [idle |-> TRUE]
IdsIdle == [idle |-> TRUE]

(***************************************************************************)
(* useDebounce                                                             *)
(***************************************************************************)

\* The effect body: setTimeout(() => setDebouncedValue(value), delay).
\* `id` is the position of the arming update in db.updates.
DbArm(timers, value, delay, id) ==
    timers \cup {[due |-> now + delay, val |-> value, id |-> id]}

\* A cleanup that forgets clearTimeout(handler).
DbCleanupNoClear(timers) == timers

\* The effect cleanup: clearTimeout(handler) of the timer the effect armed.
DbCleanup(timers) == {}

DbIdle == [mounted |-> FALSE, value |-> NoValue, delay |-> 0,
           debouncedValue |-> NoValue,
           timers |-> {}, updates |-> <<>>, commits |-> <<>>]

\* Mount: useState(value), then the effect arms the first timer.
DbMount(v, d) ==
    [mounted |-> TRUE, value |-> v, delay |-> d, debouncedValue |-> v,
     timers |-> {[due |-> d, val |-> v, id |-> 1]},
     updates |-> <<[at |-> 0, val |-> v, delay |-> d]>>,
     commits |-> <<>>]

DbInit == \E v \in InputValues, d \in Delays : db = DbMount(v, d)

\* A render with a changed dependency ([value, delay]): the previous effect is
\* cleaned up and the effect runs again.  A render with the same value and
\* delay runs neither.
DbRender(v, d) ==
    /\ db.mounted
    /\ <<v, d>> # <<db.value, db.delay>>
    /\ Len(db.updates) < MaxUpdates
    /\ now + MaxDelay <= MaxTime
    /\ db' = [db EXCEPT
                !.value = v,
                !.delay = d,
                !.timers = DbArm(DbCleanup(db.timers), v, d, Len(db.updates) + 1),
                !.updates = Append(db.updates, [at |-> now, val |-> v, delay |-> d])]
    /\ UNCHANGED <<now, thr, st, log, cf, co, evl, io, cb, pv, mq, ws, pu, gm, ids>>

\* The timer callback: setDebouncedValue(value) of the closure's value.
DbTimerFire(t) ==
    /\ t \in db.timers
    /\ t.due <= now
    /\ db' = [db EXCEPT
                !.debouncedValue = t.val,
                !.timers = db.timers \ {t},
                !.commits = Append(db.commits, [at |-> now, val |-> t.val, id |-> t.id])]
    /\ UNCHANGED <<now, thr, st, log, cf, co, evl, io, cb, pv, mq, ws, pu, gm, ids>>

\* The clock advances unless a timer callback is due.
DbTick ==
    /\ now < MaxTime
    /\ \A t \in db.timers : t.due > now
    /\ now' = now + 1
    /\ UNCHANGED <<db, thr, st, log, cf, co, evl, io, cb, pv, mq, ws, pu, gm, ids>>

\* Unmount: React runs the cleanup of the last effect.
DbUnmount ==
    /\ db.mounted
    /\ db' = [db EXCEPT !.mounted = FALSE, !.timers = DbCleanup(db.timers)]
    /\ UNCHANGED <<now, thr, st, log, cf, co, evl, io, cb, pv, mq, ws, pu, gm, ids>>

DbNext ==
    \/ \E v \in InputValues, d \in Delays : DbRender(v, d)
    \/ \E t \in db.timers : DbTimerFire(t)
    \/ DbTick

(***************************************************************************)
(* useThrottle                                                             *)
(***************************************************************************)

\* A trailing timer armed to fire at once.
ThrRemainingNone(interval, timeSinceLastExecution) == 0

\* A trailing timer armed for a whole interval from now.
ThrRemainingWholeInterval(interval, timeSinceLastExecution) == interval

\* The else branch of the effect arms the trailing timer for the time that
\* remains of the interval: setTimeout(..., interval - timeSinceLastExecution).
ThrRemaining(interval, timeSinceLastExecution) == interval - timeSinceLastExecution

\* The effect body, run with the rendered value and interval.
ThrEffect(t, v, interval) ==
    LET timeSinceLastExecution == now - t.lastExecuted
    IN  IF timeSinceLastExecution >= interval
        THEN [t EXCEPT
                !.throttledValue = v,
                !.lastExecuted = now,
                !.commits = Append(t.commits, [at |-> now, val |-> v, by |-> "effect"])]
        ELSE [t EXCEPT
                !.timers = t.timers \cup
                    {[due |-> now + ThrRemaining(interval, timeSinceLastExecution),
                      val |-> v]}]

\* The effect cleanup: clearTimeout(timer); the immediate branch returns none.
ThrCleanup(t) == [t EXCEPT !.timers = {}]

\* Mount: useState(value), useRef(Date.now()), then the effect.  `intervals`
\* collects the intervals the hook has been rendered with.
ThrMount(v, interval) ==
    ThrEffect([mounted |-> TRUE,
               value |-> v, interval |-> interval, throttledValue |-> v,
               lastExecuted |-> now, timers |-> {}, commits |-> <<>>, updates |-> 1,
               intervals |-> {interval}],
              v, interval)

ThrInit == \E v \in InputValues, d \in Delays : thr = ThrMount(v, d)

\* A render with a changed dependency ([value, interval]).
ThrRender(v, interval) ==
    /\ thr.mounted
    /\ <<v, interval>> # <<thr.value, thr.interval>>
    /\ thr.updates < MaxUpdates
    /\ now + MaxDelay <= MaxTime
    /\ thr' = ThrEffect([ThrCleanup(thr) EXCEPT
                            !.value = v, !.interval = interval,
                            !.updates = thr.updates + 1,
                            !.intervals = thr.intervals \cup {interval}],
                        v, interval)
    /\ UNCHANGED <<now, db, st, log, cf, co, evl, io, cb, pv, mq, ws, pu, gm, ids>>

\* The timer callback: setThrottledValue(value); lastExecuted.current = Date.now().
ThrTimerFire(t) ==
    /\ t \in thr.timers
    /\ t.due <= now
    /\ thr' = [thr EXCEPT
                 !.throttledValue = t.val,
                 !.lastExecuted = now,
                 !.timers = thr.timers \ {t},
                 !.commits = Append(thr.commits, [at |-> now, val |-> t.val, by |-> "timer"])]
    /\ UNCHANGED <<now, db, st, log, cf, co, evl, io, cb, pv, mq, ws, pu, gm, ids>>

ThrFire == \E t \in thr.timers : ThrTimerFire(t)

\* The clock advances unless a timer callback is due.
ThrTick ==
    /\ now < MaxTime
    /\ \A t \in thr.timers : t.due > now
    /\ now' = now + 1
    /\ UNCHANGED <<db, thr, st, log, cf, co, evl, io, cb, pv, mq, ws, pu, gm, ids>>

\* Unmount: React runs the cleanup of the last effect, if it returned one.
ThrUnmount ==
    /\ thr.mounted
    /\ thr' = [ThrCleanup(thr) EXCEPT !.mounted = FALSE]
    /\ UNCHANGED <<now, db, st, log, cf, co, evl, io, cb, pv, mq, ws, pu, gm, ids>>

ThrNext ==
    \/ \E v \in InputValues, d \in Delays : ThrRender(v, d)
    \/ ThrFire
    \/ ThrTick

(***************************************************************************)
(* JavaScript values and JSON                                              *)
(*                                                                         *)
(* An object is the sequence of its own <<key, value>> pairs in insertion  *)
(* order; an array is the sequence of its elements.                        *)
(***************************************************************************)
Undefined == [t |-> "undefined"]
Null == [t |-> "null"]
NaN == [t |-> "NaN"]
Num(n) == [t |-> "number", n |-> n]
Str(x) == [t |-> "string", s |-> x]
Bool(b) == [t |-> "boolean", b |-> b]
Obj(kv) == [t |-> "object", kv |-> kv]
Arr(elems) == [t |-> "array", el |-> elems]

\* What JSON.stringify returns for undefined (the value undefined, not a string).
NoJSON == "<undefined>"

RECURSIVE JoinComma(_)
JoinComma(parts) ==
    IF parts = <<>> THEN ""
    ELSE IF Len(parts) = 1 THEN parts[1]
    ELSE parts[1] \o "," \o JoinComma(Tail(parts))

\* JSON.stringify: undefined has no JSON text; NaN is written as null; a
\* property whose value is undefined is left out; an undefined array element is
\* written as null; properties are written in insertion order.
RECURSIVE JSONStringify(_)
JSONStringify(v) ==
    CASE v.t = "undefined" -> NoJSON
      [] v.t = "null" -> "null"
      [] v.t = "NaN" -> "null"
      [] v.t = "number" -> ToString(v.n)
      [] v.t = "string" -> "\"" \o v.s \o "\""
      [] v.t = "boolean" -> IF v.b THEN "true" ELSE "false"
      [] v.t = "object" ->
            LET defined == SelectSeq(v.kv, LAMBDA p : JSONStringify(p[2]) # NoJSON)
            IN  "{" \o JoinComma([k \in 1..Len(defined) |->
                        "\"" \o defined[k][1] \o "\":" \o JSONStringify(defined[k][2])])
                    \o "}"
      [] v.t = "array" ->
            "[" \o JoinComma([k \in 1..Len(v.el) |->
                        IF JSONStringify(v.el[k]) = NoJSON THEN "null"
                        ELSE JSONStringify(v.el[k])])
                \o "]"

\* JSON.parse over the texts the model stores; any other text is a SyntaxError.
SyntaxError == [t |-> "throw"]
JSONValues == {Num(1), Num(2), Null, Str(""), Bool(FALSE)}
JSONParse(text) ==
    IF \E v \in JSONValues : JSONStringify(v) = text
    THEN CHOOSE v \in JSONValues : JSONStringify(v) = text
    ELSE SyntaxError

(***************************************************************************)
(* useLocalStorage / useSessionStorage                                     *)
(*                                                                         *)
(* st.area is the storage the hooks of the tab wrap; both hooks share the  *)
(* code below except for the events they listen to.  Of an instance,       *)
(* `state` is its React state (the latest setStoredValue) and              *)
(* `storedValue` the value its last render returned and its callbacks      *)
(* closed over.                                                            *)
(***************************************************************************)
StAreas == {"localStorage", "sessionStorage"}
StKeys == {"k1", "k2"}
StInstances == {1, 2}
StTabs == {1, 2}
StValues == {Num(1), Num(2), NaN, Null, Str("")}
StInitialValues == {Num(1), Str("")}
StUpdaters == {"next"}
NoItem == "<null>"          \* getItem returns null: no item under the key

\* The functional update (prev) => next used by the callers of the model.
StApply(f, prev) == IF prev = Num(1) THEN Num(2) ELSE Num(1)

StCustomEvent(area) ==
    IF area = "localStorage" THEN [type |-> "local-storage"]
    ELSE [type |-> "session-storage"]

\* readValue: item ? JSON.parse(item) : initialValue, initialValue on a throw.
StReadValue(storage, key, initialValue) ==
    LET item == storage[key]
    IN  IF item # NoItem /\ item # ""
        THEN IF JSONParse(item) = SyntaxError THEN initialValue ELSE JSONParse(item)
        ELSE initialValue

\* The early return of the localStorage handler: the event carries a key, and
\* it is another one.  The custom events carry no key.
StOtherKey(area, h, e) ==
    area = "localStorage" /\ "key" \in DOMAIN e /\ e.key # "" /\ e.key # h.key

\* An instance that does not re-read on the event.
StHandleStorageChangeIgnore(area, h, e, storage) == h

\* handleStorageChange of one instance: setStoredValue(readValue()) unless the
\* event is about another key.
StHandleStorageChange(area, h, e, storage) ==
    IF StOtherKey(area, h, e)
    THEN h
    ELSE [h EXCEPT !.state = StReadValue(storage, h.key, h.initialValue)]

\* A localStorage hook that listens to the native event alone.
StListenerTypesNativeOnly(area) ==
    IF area = "localStorage" THEN {"storage"} ELSE {"session-storage"}

\* The events the effect subscribes to on window.
StListenerTypes(area) ==
    IF area = "localStorage" THEN {"storage", "local-storage"}
    ELSE {"session-storage"}

\* The effect: window.addEventListener(type, handleStorageChange) per type, in
\* the window of the instance's tab.
StSubscribe(area, i, tab) ==
    {[inst |-> i, tab |-> tab, type |-> type] : type \in StListenerTypes(area)}

\* The effect cleanup: removeEventListener for the listeners of the run.
StCleanup(listeners, area, i, tab) == listeners \ StSubscribe(area, i, tab)

\* The listeners of instance i that an event dispatched in `tab` invokes.
StInvoked(listeners, i, tab, e) ==
    {l \in listeners : l.inst = i /\ l.tab = tab /\ l.type = e.type}

\* window.dispatchEvent(e) in `tab`: the listeners run, synchronously.
StDispatch(area, inst, listeners, tab, e, storage) ==
    [i \in StInstances |->
        IF StInvoked(listeners, i, tab, e) # {}
        THEN StHandleStorageChange(area, inst[i], e, storage)
        ELSE inst[i]]

\* How often each instance calls readValue while the event is dispatched.
StReads(area, inst, listeners, tab, e) ==
    [i \in StInstances |->
        IF StOtherKey(area, inst[i], e) THEN 0
        ELSE Cardinality(StInvoked(listeners, i, tab, e))]

StNoReads == [i \in StInstances |-> 0]

\* The native storage event of a write in `tab`: fired in the other tabs, and
\* only when the write changed the item.  Events for tabs without a listener
\* for it are left out.
StNativeEvents(listeners, tab, key, changed) ==
    IF ~changed THEN <<>>
    ELSE LET other == CHOOSE t \in StTabs : t # tab
         IN  IF \E l \in listeners : l.tab = other /\ l.type = "storage"
             THEN <<[type |-> "storage", key |-> key, tab |-> other, from |-> tab]>>
             ELSE <<>>

StUnmounted == [mounted |-> FALSE, tab |-> 1, key |-> "k1", initialValue |-> Null,
                state |-> Null, storedValue |-> Null]

StInit ==
    \E area \in StAreas, item \in {NoItem, JSONStringify(Num(2))} :
        st = [area |-> area,
              storage |-> [k \in StKeys |-> IF k = "k1" THEN item ELSE NoItem],
              inst |-> [i \in StInstances |-> StUnmounted],
              listeners |-> {},
              pending |-> <<>>,
              reads |-> StNoReads,
              last |-> [op |-> "none", inst |-> 0]]

\* An exception that leaves setValue or removeValue.
StNoCatch(s, i, op) ==
    [s EXCEPT !.reads = StNoReads, !.last = [op |-> op \o " escaped", inst |-> i]]

\* catch (error) { console.warn(...) }: the call returns, nothing was changed.
StCatch(s, i, op) ==
    [s EXCEPT !.reads = StNoReads, !.last = [op |-> op \o " threw", inst |-> i]]

\* First render and mount: useState(readValue), then the effect subscribes.
StMount(i, tab, key, initialValue) ==
    /\ ~st.inst[i].mounted
    /\ LET v == StReadValue(st.storage, key, initialValue)
       IN  st' = [st EXCEPT
                    !.inst[i] = [mounted |-> TRUE, tab |-> tab, key |-> key,
                                 initialValue |-> initialValue,
                                 state |-> v, storedValue |-> v],
                    !.listeners = st.listeners \cup StSubscribe(st.area, i, tab),
                    !.reads = StNoReads,
                    !.last = [op |-> "mount", inst |-> i]]
    /\ UNCHANGED <<now, db, thr, log, cf, co, evl, io, cb, pv, mq, ws, pu, gm, ids>>

\* setValue(value): `isFunction` tells a functional update from a plain value;
\* `throws` is setItem failing (quota), which the catch swallows.
StSetValue(i, value, isFunction, throws) ==
    /\ st.inst[i].mounted
    /\ LET h == st.inst[i]
           newValue == IF isFunction THEN StApply(value, h.storedValue) ELSE value
           text == JSONStringify(newValue)
           storage == [st.storage EXCEPT ![h.key] = text]
           set == [st.inst EXCEPT ![i].state = newValue]
           e == StCustomEvent(st.area)
           native == StNativeEvents(st.listeners, h.tab, h.key,
                                    st.storage[h.key] # text)
       IN  IF throws
           THEN st' = StCatch(st, i, "setValue")
           ELSE /\ Len(st.pending) + Len(native) <= MaxPending
                /\ st' = [st EXCEPT
                        !.storage = storage,
                        !.inst = StDispatch(st.area, set, st.listeners, h.tab, e, storage),
                        !.reads = StReads(st.area, set, st.listeners, h.tab, e),
                        !.pending = st.pending \o native,
                        !.last = [op |-> "setValue", inst |-> i]]
    /\ UNCHANGED <<now, db, thr, log, cf, co, evl, io, cb, pv, mq, ws, pu, gm, ids>>

\* What a setValue(f) that does not throw leaves behind, in a tab that is alone:
\* the body of setValue as in StSetValue, as a function of the state s.
StAfterUpdate(s, i, f) ==
    LET h == s.inst[i]
        newValue == StApply(f, h.storedValue)
        storage == [s.storage EXCEPT ![h.key] = JSONStringify(newValue)]
        set == [s.inst EXCEPT ![i].state = newValue]
        e == StCustomEvent(s.area)
    IN  [s EXCEPT
            !.storage = storage,
            !.inst = StDispatch(s.area, set, s.listeners, h.tab, e, storage),
            !.reads = StReads(s.area, set, s.listeners, h.tab, e)]

\* An event handler of the component that calls setValue(f) and then
\* setValue(g): both calls run before the instance renders again, so both are
\* the setValue of the same render.  `before` is the state they started from.
StSetValueTwice(i, f, g) ==
    /\ st.inst[i].mounted
    /\ st.pending = <<>>
    /\ st' = [StAfterUpdate(StAfterUpdate(st, i, f), i, g) EXCEPT
                !.last = [op |-> "setValue twice", inst |-> i,
                          before |-> st.inst[i].state]]
    /\ UNCHANGED <<now, db, thr, log, cf, co, evl, io, cb, pv, mq, ws, pu, gm, ids>>

\* removeValue(): removeItem, setStoredValue(initialValue), the custom event;
\* `throws` is removeItem failing, which the catch swallows.
StRemoveValue(i, throws) ==
    /\ st.inst[i].mounted
    /\ LET h == st.inst[i]
           storage == [st.storage EXCEPT ![h.key] = NoItem]
           set == [st.inst EXCEPT ![i].state = h.initialValue]
           e == StCustomEvent(st.area)
           native == StNativeEvents(st.listeners, h.tab, h.key,
                                    st.storage[h.key] # NoItem)
       IN  IF throws
           THEN st' = StCatch(st, i, "removeValue")
           ELSE /\ Len(st.pending) + Len(native) <= MaxPending
                /\ st' = [st EXCEPT
                    !.storage = storage,
                    !.inst = StDispatch(st.area, set, st.listeners, h.tab, e, storage),
                    !.reads = StReads(st.area, set, st.listeners, h.tab, e),
                    !.pending = st.pending \o native,
                    !.last = [op |-> "removeValue", inst |-> i]]
    /\ UNCHANGED <<now, db, thr, log, cf, co, evl, io, cb, pv, mq, ws, pu, gm, ids>>

\* The native storage event of an earlier write in another tab is delivered.
StStorageEvent ==
    /\ st.pending # <<>>
    /\ LET e == Head(st.pending)
       IN  st' = [st EXCEPT
                    !.inst = StDispatch(st.area, st.inst, st.listeners, e.tab, e,
                                        st.storage),
                    !.reads = StReads(st.area, st.inst, st.listeners, e.tab, e),
                    !.pending = Tail(st.pending),
                    !.last = [op |-> "storage event", inst |-> 0,
                              key |-> e.key, tab |-> e.tab, from |-> e.from]]
    /\ UNCHANGED <<now, db, thr, log, cf, co, evl, io, cb, pv, mq, ws, pu, gm, ids>>

\* The re-render a state change causes: the hook returns the new state.
StRender(i) ==
    /\ st.inst[i].mounted
    /\ st.inst[i].storedValue # st.inst[i].state
    /\ st' = [st EXCEPT !.inst[i].storedValue = st.inst[i].state,
                        !.reads = StNoReads,
                        !.last = [op |-> "render", inst |-> i]]
    /\ UNCHANGED <<now, db, thr, log, cf, co, evl, io, cb, pv, mq, ws, pu, gm, ids>>

\* Unmount: the effect cleanup removes the listeners.
StUnmount(i) ==
    /\ st.inst[i].mounted
    /\ st' = [st EXCEPT !.inst[i] = StUnmounted,
                        !.listeners = StCleanup(st.listeners, st.area, i,
                                                st.inst[i].tab),
                        !.reads = StNoReads,
                        !.last = [op |-> "unmount", inst |-> i]]
    /\ UNCHANGED <<now, db, thr, log, cf, co, evl, io, cb, pv, mq, ws, pu, gm, ids>>

\* The hooks of one tab.
StNext ==
    \/ \E i \in StInstances, k \in StKeys, v \in StInitialValues : StMount(i, 1, k, v)
    \/ \E i \in StInstances, v \in StValues, throws \in BOOLEAN :
            StSetValue(i, v, FALSE, throws)
    \/ \E i \in StInstances, f \in StUpdaters : StSetValue(i, f, TRUE, FALSE)
    \/ \E i \in StInstances : StRemoveValue(i, FALSE)
    \/ \E i \in StInstances : StRender(i)
    \/ \E i \in StInstances : StUnmount(i)

\* The hooks of one tab whose components update functionally.
StUpdatesNext ==
    \/ \E i \in StInstances, k \in StKeys, v \in StInitialValues : StMount(i, 1, k, v)
    \/ \E i \in StInstances, f \in StUpdaters : StSetValue(i, f, TRUE, FALSE)
    \/ \E i \in StInstances, f \in StUpdaters, g \in StUpdaters :
            StSetValueTwice(i, f, g)
    \/ \E i \in StInstances : StRemoveValue(i, FALSE)
    \/ \E i \in StInstances : StRender(i)
    \/ \E i \in StInstances : StUnmount(i)

\* The hooks of one tab where storage operations may fail: the item found at
\* mount may be no JSON text, setItem and removeItem may throw.
StCorruptItem == "{"

StFailInit ==
    \E area \in StAreas, item \in {StCorruptItem, JSONStringify(Num(2))} :
        st = [area |-> area,
              storage |-> [k \in StKeys |-> IF k = "k1" THEN item ELSE NoItem],
              inst |-> [i \in StInstances |-> StUnmounted],
              listeners |-> {},
              pending |-> <<>>,
              reads |-> StNoReads,
              last |-> [op |-> "none", inst |-> 0]]

StFailNext ==
    \/ \E i \in StInstances, k \in StKeys, v \in StInitialValues : StMount(i, 1, k, v)
    \/ \E i \in StInstances, v \in {Num(1), Num(2)}, throws \in BOOLEAN :
            StSetValue(i, v, FALSE, throws)
    \/ \E i \in StInstances, throws \in BOOLEAN : StRemoveValue(i, throws)
    \/ \E i \in StInstances : StRender(i)
    \/ \E i \in StInstances : StUnmount(i)

\* useLocalStorage in two tabs of one origin.
StTabsInit ==
    st = [area |-> "localStorage",
          storage |-> [k \in StKeys |-> NoItem],
          inst |-> [i \in StInstances |-> StUnmounted],
          listeners |-> {},
          pending |-> <<>>,
          reads |-> StNoReads,
          last |-> [op |-> "none", inst |-> 0]]

StTabsNext ==
    \/ \E i \in StInstances, tab \in StTabs, k \in StKeys : StMount(i, tab, k, Num(1))
    \/ \E i \in StInstances, v \in {Num(1), Num(2)}, throws \in BOOLEAN :
            StSetValue(i, v, FALSE, throws)
    \/ \E i \in StInstances : StRemoveValue(i, FALSE)
    \/ StStorageEvent
    \/ \E i \in StInstances : StRender(i)
    \/ \E i \in StInstances : StUnmount(i)

(***************************************************************************)
(* The API log store of ApiLogger.tsx                                      *)
(*                                                                         *)
(* An entry's id (`${Date.now()}-${Math.random()}`) and timestamp are      *)
(* modelled by the entry's creation number.                                *)
(***************************************************************************)
LogCap == 100
LogInputs == {[method |-> "GET", url |-> "/api"]}

\* Array.prototype.slice(0, n)
Slice0(seq, n) == SubSeq(seq, 1, IF Len(seq) < n THEN Len(seq) ELSE n)

\* A store that never drops an entry.
LogPrependUncapped(newLog, globalLogs) == <<newLog>> \o globalLogs

\* [newLog, ...globalLogs].slice(0, 100)
LogPrepend(newLog, globalLogs) == Slice0(<<newLog>> \o globalLogs, LogCap)

LogComponents == {1, 2}
LogMaxLogs == {2, 50}

\* An ApiLogger that is not mounted.
LogUnmounted == [mounted |-> FALSE, maxLogs |-> 50, logs |-> <<>>,
                 selectedLog |-> Null]

\* The listener of a component: setLogs(newLogs.slice(0, maxLogs)), with the
\* maxLogs of the render whose effect created it.
LogListener(comps, l, newLogs) ==
    [comps EXCEPT ![l.comp].logs = Slice0(newLogs, l.maxLogs)]

\* logListeners.forEach((listener) => listener([...newLogs]))
RECURSIVE LogNotify(_, _, _)
LogNotify(comps, logListeners, newLogs) ==
    IF logListeners = <<>> THEN comps
    ELSE LogNotify(LogListener(comps, Head(logListeners), newLogs),
                   Tail(logListeners), newLogs)

\* A cleanup that leaves the listener subscribed.
LogUnsubscribeNone(logListeners, c) == logListeners

\* The effect cleanup: logListeners.filter((l) => l !== listener).
LogUnsubscribe(logListeners, c) ==
    SelectSeq(logListeners, LAMBDA l : l.comp # c)

\* The effect: logListeners.push(listener); listener([...globalLogs]).
LogSubscribe(s, c, maxLogs) ==
    LET l == [comp |-> c, maxLogs |-> maxLogs]
    IN  [s EXCEPT !.logListeners = Append(s.logListeners, l),
                  !.comps = LogListener(s.comps, l, s.globalLogs)]

\* `created` counts the addApiLog calls and `cleared` is its value at the last
\* clearApiLogs call.
LogInit == log = [globalLogs |-> <<>>, created |-> 0, cleared |-> 0,
                  logListeners |-> <<>>,
                  comps |-> [c \in LogComponents |-> LogUnmounted]]

\* addApiLog(log)
AddApiLog(input) ==
    /\ log.created < MaxAdds
    /\ LET newLog == [id |-> log.created + 1, method |-> input.method, url |-> input.url]
           globalLogs == LogPrepend(newLog, log.globalLogs)
       IN  log' = [log EXCEPT
                     !.globalLogs = globalLogs,
                     !.created = log.created + 1,
                     !.comps = LogNotify(log.comps, log.logListeners, globalLogs)]
    /\ UNCHANGED <<now, db, thr, st, cf, co, evl, io, cb, pv, mq, ws, pu, gm, ids>>

\* clearApiLogs(), as a function of the store.
LogCleared(s) ==
    [s EXCEPT !.globalLogs = <<>>,
              !.cleared = s.created,
              !.comps = LogNotify(s.comps, s.logListeners, <<>>)]

\* clearApiLogs() called by the application.
ClearApiLogs ==
    /\ log' = LogCleared(log)
    /\ UNCHANGED <<now, db, thr, st, cf, co, evl, io, cb, pv, mq, ws, pu, gm, ids>>

\* An ApiLogger mounts: useState([]), useState(null), then the effect.
LogMount(c, maxLogs) ==
    /\ ~log.comps[c].mounted
    /\ log' = LogSubscribe([log EXCEPT !.comps[c] =
                                [mounted |-> TRUE, maxLogs |-> maxLogs,
                                 logs |-> <<>>, selectedLog |-> Null]],
                           c, maxLogs)
    /\ UNCHANGED <<now, db, thr, st, cf, co, evl, io, cb, pv, mq, ws, pu, gm, ids>>

\* A render with another maxLogs: the cleanup, then the effect.
LogSetMaxLogs(c, maxLogs) ==
    /\ log.comps[c].mounted
    /\ maxLogs # log.comps[c].maxLogs
    /\ log' = LogSubscribe([log EXCEPT
                                !.comps[c].maxLogs = maxLogs,
                                !.logListeners = LogUnsubscribe(log.logListeners, c)],
                           c, maxLogs)
    /\ UNCHANGED <<now, db, thr, st, cf, co, evl, io, cb, pv, mq, ws, pu, gm, ids>>

\* An ApiLogger unmounts: the cleanup.
LogUnmount(c) ==
    /\ log.comps[c].mounted
    /\ log' = [log EXCEPT !.comps[c] = LogUnmounted,
                          !.logListeners = LogUnsubscribe(log.logListeners, c)]
    /\ UNCHANGED <<now, db, thr, st, cf, co, evl, io, cb, pv, mq, ws, pu, gm, ids>>

\* handleClearLogs of a panel: after confirm(), clearApiLogs() and
\* setSelectedLog(null).
LogHandleClearLogs(c, confirmed) ==
    /\ log.comps[c].mounted
    /\ log' = IF confirmed
              THEN [LogCleared(log) EXCEPT !.comps[c].selectedLog = Null]
              ELSE log
    /\ UNCHANGED <<now, db, thr, st, cf, co, evl, io, cb, pv, mq, ws, pu, gm, ids>>

\* A click on the k-th row of the list a panel displays: setSelectedLog(log).
LogSelect(c, k) ==
    /\ log.comps[c].mounted
    /\ k \in 1..Len(log.comps[c].logs)
    /\ log' = [log EXCEPT !.comps[c].selectedLog = log.comps[c].logs[k]]
    /\ UNCHANGED <<now, db, thr, st, cf, co, evl, io, cb, pv, mq, ws, pu, gm, ids>>

LogNext ==
    \/ \E input \in LogInputs : AddApiLog(input)
    \/ ClearApiLogs

\* The store and panels whose rows are clicked, over a few entries.
MaxSelectAdds == 4

LogSelectNext ==
    \/ log.created < MaxSelectAdds /\ \E input \in LogInputs : AddApiLog(input)
    \/ ClearApiLogs
    \/ \E c \in LogComponents, maxLogs \in LogMaxLogs : LogMount(c, maxLogs)
    \/ \E c \in LogComponents, maxLogs \in LogMaxLogs : LogSetMaxLogs(c, maxLogs)
    \/ \E c \in LogComponents : LogUnmount(c)
    \/ \E c \in LogComponents, confirmed \in BOOLEAN : LogHandleClearLogs(c, confirmed)
    \/ \E c \in LogComponents, k \in 1..MaxSelectAdds : LogSelect(c, k)

\* The store with ApiLogger panels mounted on it.
LogPanelNext ==
    \/ LogNext
    \/ \E c \in LogComponents, maxLogs \in LogMaxLogs : LogMount(c, maxLogs)
    \/ \E c \in LogComponents, maxLogs \in LogMaxLogs : LogSetMaxLogs(c, maxLogs)
    \/ \E c \in LogComponents : LogUnmount(c)
    \/ \E c \in LogComponents, confirmed \in BOOLEAN : LogHandleClearLogs(c, confirmed)

(***************************************************************************)
(* getChangedFields of FormDevTools                                        *)
(*                                                                         *)
(* Field names hold no dot (a dot in a field name is how the form library  *)
(* writes nesting), so a path is the dot-joined list of its keys.          *)
(***************************************************************************)
True == Bool(TRUE)
False == Bool(FALSE)

CfKeys == {"a", "b", "c", "0"}
MaxDepth == 3
CfKeyLists == UNION {[1..n -> CfKeys] : n \in 1..MaxDepth}

\* `${prefix}.${key}`, or key alone under an empty prefix
CfFullPath(prefix, key) == IF prefix # "" THEN prefix \o "." \o key ELSE key

RECURSIVE CfJoin(_)
CfJoin(keys) ==
    IF Len(keys) = 1 THEN keys[1]
    ELSE CfFullPath(CfJoin(SubSeq(keys, 1, Len(keys) - 1)), keys[Len(keys)])

\* path.split('.')
CfSplit(path) == CHOOSE keys \in CfKeyLists : CfJoin(keys) = path

\* Object.keys with the values: own properties in insertion order, the indices
\* of an array.
JsEntries(v) ==
    CASE v.t = "object" -> v.kv
      [] v.t = "array" -> [k \in 1..Len(v.el) |-> <<ToString(k - 1), v.el[k]>>]
      [] OTHER -> <<>>

\* acc?.[key]
JsGet(acc, key) ==
    LET hits == SelectSeq(JsEntries(acc), LAMBDA e : e[1] = key)
    IN  IF hits = <<>> THEN Undefined ELSE hits[Len(hits)][2]

RECURSIVE CfReduce(_, _)
CfReduce(acc, keys) ==
    IF keys = <<>> THEN acc ELSE CfReduce(JsGet(acc, Head(keys)), Tail(keys))

\* getNestedValue(obj, path)
CfGetNestedValue(obj, path) == CfReduce(obj, CfSplit(path))

\* A truthy object / array (what `originalValues ? ... : undefined` tests).
JsTruthy(v) == v.t \in {"object", "array"} \/ v = True \/ (v.t = "number" /\ v.n # 0)

\* changed[fullPath] = entry
CfPut(changed, fullPath, entry) ==
    [q \in DOMAIN changed \cup {fullPath} |->
        IF q = fullPath THEN entry ELSE changed[q]]

\* A comparison that reports every dirty leaf.
CfDiffersAlways(currentValue, originalValue) == TRUE

\* JSON.stringify(currentValue) !== JSON.stringify(originalValue)
CfDiffers(currentValue, originalValue) ==
    JSONStringify(currentValue) # JSONStringify(originalValue)

\* processDirtyFields(dirty, prefix), from the k-th key of `dirty` on; returns
\* `changed`.
RECURSIVE CfProcessDirtyFields(_, _, _, _, _, _)
CfProcessDirtyFields(dirty, prefix, k, changed, values, originalValues) ==
    IF k > Len(JsEntries(dirty)) THEN changed
    ELSE
        LET key == JsEntries(dirty)[k][1]
            dirtyValue == JsEntries(dirty)[k][2]
            fullPath == CfFullPath(prefix, key)
            currentValue == CfGetNestedValue(values, fullPath)
            originalValue ==
                IF JsTruthy(originalValues)
                THEN CfGetNestedValue(originalValues, fullPath) ELSE Undefined
            after ==
                IF dirtyValue = True
                THEN IF CfDiffers(currentValue, originalValue)
                     THEN CfPut(changed, fullPath,
                                [from |-> originalValue, to |-> currentValue])
                     ELSE changed
                ELSE IF dirtyValue.t \in {"object", "array"}
                     THEN CfProcessDirtyFields(dirtyValue, fullPath, 1, changed,
                                               values, originalValues)
                     ELSE changed
        IN  CfProcessDirtyFields(dirty, prefix, k + 1, after, values, originalValues)

\* getChangedFields()
CfGetChangedFields(dirtyFields, values, originalValues) ==
    IF ~JsTruthy(dirtyFields) \/ ~JsTruthy(values) THEN <<>>
    ELSE CfProcessDirtyFields(dirtyFields, "", 1, <<>>, values, originalValues)

\* An object of the given properties; a property given as Absent is left out.
Absent == [t |-> "absent"]
ObjOf(kv) == Obj(SelectSeq(kv, LAMBDA e : e[2] # Absent))

XY == Obj(<< <<"x", Num(1)>>, <<"y", Num(2)>> >>)
YX == Obj(<< <<"y", Num(2)>>, <<"x", Num(1)>> >>)
CfLeaves == {Num(1), Num(2), Null, NaN, XY, YX, Arr(<<Num(1), Num(2)>>)}
CfNested == {Obj(<< <<"c", v>> >>) : v \in {Num(1), Num(2)}}
             \cup {Arr(<< Obj(<< <<"c", Num(1)>> >>) >>)}

\* The form values and the original values a form can hand over.
CfValueTrees ==
    {ObjOf(<< <<"a", va>>, <<"b", vb>> >>) :
        va \in CfLeaves \cup {Absent}, vb \in CfNested \cup {Absent}}

\* formState.dirtyFields: true, false or a nested tree per field.
CfDirtyTrees ==
    {ObjOf(<< <<"a", da>>, <<"b", db0>> >>) :
        da \in {Absent, True, False},
        db0 \in {Absent, True, Obj(<< <<"c", True>> >>), Obj(<< <<"c", False>> >>),
                 Arr(<< Obj(<< <<"c", True>> >>) >>)}}

CfInit ==
    \E d \in CfDirtyTrees, v \in CfValueTrees, o \in CfValueTrees \cup {Undefined} :
        cf = [dirtyFields |-> d, values |-> v, originalValues |-> o,
              rendered |-> FALSE, changedFields |-> <<>>]

\* A render of FormDevTools: const changedFields = getChangedFields().
CfRender ==
    /\ ~cf.rendered
    /\ cf' = [cf EXCEPT
                !.rendered = TRUE,
                !.changedFields =
                    CfGetChangedFields(cf.dirtyFields, cf.values, cf.originalValues)]
    /\ UNCHANGED <<now, db, thr, st, log, co, evl, io, cb, pv, mq, ws, pu, gm, ids>>

CfNext == CfRender

(***************************************************************************)
(* useClickOutside / useClickOutsideMultiple                               *)
(***************************************************************************)
DomNodes == {"body", "modal", "modalButton", "trigger", "page"}
DomParent == [n \in DomNodes |->
                CASE n = "modal" -> "body"
                  [] n = "modalButton" -> "modal"
                  [] n = "trigger" -> "body"
                  [] n = "page" -> "body"
                  [] OTHER -> "none"]

\* Node.contains: other is the node itself or one of its descendants.
RECURSIVE DomContains(_, _)
DomContains(node, other) ==
    IF other = "none" THEN FALSE
    ELSE IF other = node THEN TRUE
    ELSE DomContains(node, DomParent[other])

NoElement == "null"                 \* ref.current of a ref with no element
CoHooks == {"useClickOutside", "useClickOutsideMultiple"}
CoHandlers == {"handler1", "handler2"}
CoEventTypes == {"mousedown", "touchstart"}
CoRefs(hook) == IF hook = "useClickOutside" THEN 1..1 ELSE 1..2

\* The listener of useClickOutside: TRUE when it calls handler(event).
CoListenerSingle(current, target) ==
    LET element == current[1]
    IN  ~(element = NoElement \/ DomContains(element, target))

\* The listener of useClickOutsideMultiple.
CoListenerMultiple(current, target) ==
    LET isInside == \E k \in DOMAIN current :
                        current[k] # NoElement /\ DomContains(current[k], target)
    IN  ~isInside

CoListener(hook, current, target) ==
    IF hook = "useClickOutside" THEN CoListenerSingle(current, target)
    ELSE CoListenerMultiple(current, target)

\* An effect that subscribes to mousedown alone.
CoSubscribeMouseOnly(enabled, handler) ==
    IF ~enabled THEN {} ELSE {[type |-> "mousedown", handler |-> handler]}

\* The effect: nothing when disabled, else one listener on document for each of
\* mousedown and touchstart; the listener closes over the rendered handler.
CoSubscribe(enabled, handler) ==
    IF ~enabled THEN {}
    ELSE {[type |-> type, handler |-> handler] : type \in CoEventTypes}

\* The effect cleanup: removeEventListener for both listeners of the run.
CoCleanup(listeners, enabled, handler) == listeners \ CoSubscribe(enabled, handler)

CoNoEvent == [type |-> "none"]

CoInit ==
    \E hook \in CoHooks, enabled \in BOOLEAN, handler \in CoHandlers :
        co = [mounted |-> TRUE,
              hook |-> hook, enabled |-> enabled, handler |-> handler,
              current |-> [k \in CoRefs(hook) |-> NoElement],
              listeners |-> CoSubscribe(enabled, handler),
              last |-> CoNoEvent]

\* A render with a changed handler or enabled: the cleanup removes both
\* listeners and the effect subscribes again.
CoRender(enabled, handler) ==
    /\ co.mounted
    /\ <<enabled, handler>> # <<co.enabled, co.handler>>
    /\ co' = [co EXCEPT !.enabled = enabled, !.handler = handler,
                        !.listeners =
                            CoCleanup(co.listeners, co.enabled, co.handler)
                                \cup CoSubscribe(enabled, handler),
                        !.last = CoNoEvent]
    /\ UNCHANGED <<now, db, thr, st, log, cf, evl, io, cb, pv, mq, ws, pu, gm, ids>>

\* React attaches or detaches the element of a ref (ref.current changes).
CoSetRef(k, element) ==
    /\ co.mounted
    /\ k \in DOMAIN co.current
    /\ co.current[k] # element
    /\ co' = [co EXCEPT !.current[k] = element, !.last = CoNoEvent]
    /\ UNCHANGED <<now, db, thr, st, log, cf, evl, io, cb, pv, mq, ws, pu, gm, ids>>

\* A mousedown or touchstart reaches document: every registered listener of
\* that type runs.  `last` keeps the event and the handlers that were called
\* until the next render or ref change.
CoDispatch(type, target) ==
    /\ co' = [co EXCEPT !.last =
                [type |-> type, target |-> target,
                 called |-> {l.handler : l \in
                                {l \in co.listeners :
                                    /\ l.type = type
                                    /\ CoListener(co.hook, co.current, target)}}]]
    /\ UNCHANGED <<now, db, thr, st, log, cf, evl, io, cb, pv, mq, ws, pu, gm, ids>>

\* Unmount: React runs the cleanup of the last effect, if it returned one.
CoUnmount ==
    /\ co.mounted
    /\ co' = [co EXCEPT !.mounted = FALSE,
                        !.listeners = CoCleanup(co.listeners, co.enabled, co.handler),
                        !.last = CoNoEvent]
    /\ UNCHANGED <<now, db, thr, st, log, cf, evl, io, cb, pv, mq, ws, pu, gm, ids>>

\* The component mounts again: a new instance on the same document.
CoRemount(enabled, handler) ==
    /\ ~co.mounted
    /\ co' = [co EXCEPT !.mounted = TRUE, !.enabled = enabled, !.handler = handler,
                        !.current = [k \in CoRefs(co.hook) |-> NoElement],
                        !.listeners = co.listeners \cup CoSubscribe(enabled, handler),
                        !.last = CoNoEvent]
    /\ UNCHANGED <<now, db, thr, st, log, cf, evl, io, cb, pv, mq, ws, pu, gm, ids>>

CoNext ==
    \/ \E enabled \in BOOLEAN, handler \in CoHandlers : CoRender(enabled, handler)
    \/ \E k \in 1..2, element \in DomNodes \cup {NoElement} : CoSetRef(k, element)
    \/ \E type \in CoEventTypes, target \in DomNodes : CoDispatch(type, target)

(***************************************************************************)
(* useEventListener                                                        *)
(*                                                                         *)
(* The `element` argument is undefined, the document, a ref object or an   *)
(* HTMLElement passed as it is.  A registered listener is the record of    *)
(* its addEventListener call; `gen` tells the closures of two effect runs  *)
(* apart.                                                                  *)
(***************************************************************************)
ElEventNames == {"click", "keydown"}
ElHandlers == {"handler1", "handler2"}
ElOptions == {"undefined", "true", "optionsObject"}
ElElements == {[kind |-> "undefined"], [kind |-> "document"],
               [kind |-> "ref"], [kind |-> "element", node |-> "div"]}
ElTargets == {"window", "document", "div"}

\* The target the effect picks: the document itself, the current element of a
\* ref that has one, and window for anything else.
ElTargetElement(element, current) ==
    IF element.kind = "document" THEN "document"
    ELSE IF element.kind = "ref" /\ current # NoElement THEN current
    ELSE "window"

\* A first effect that never stores the new handler.
ElSaveHandlerStale(savedHandler, handler) == savedHandler

\* The first effect: savedHandler.current = handler.
ElSaveHandler(savedHandler, handler) == handler

\* A cleanup that removes no listener.
ElCleanupNone(registry, registered) == registry

\* The cleanup of the second effect: removeEventListener with the target, name,
\* listener and options of the run that registered it.
ElCleanup(registry, registered) == registry \ {registered}

\* The second effect: addEventListener(eventName, eventListener, options).
ElRegister(eventName, element, options, current, gen) ==
    [target |-> ElTargetElement(element, current), type |-> eventName,
     options |-> options, gen |-> gen]

ElNoEvent == [type |-> "none"]

ElMount(eventName, handler, element, options, current) ==
    LET l == ElRegister(eventName, element, options, current, 0)
    IN  [mounted |-> TRUE,
         eventName |-> eventName, handler |-> handler, element |-> element,
         options |-> options, current |-> current,
         savedHandler |-> handler, registered |-> l, registry |-> {l},
         calls |-> <<"addEventListener">>, last |-> ElNoEvent]

ElInit ==
    \E eventName \in ElEventNames, element \in ElElements, options \in ElOptions,
       current \in {NoElement, "div"} :
        evl = ElMount(eventName, "handler1", element, options, current)

\* A render with new arguments.  The first effect runs when the handler
\* changed; the second, after its cleanup, when eventName, element or options
\* changed.  `calls` lists the DOM calls of the step.
ElRender(eventName, handler, element, options) ==
    /\ evl.mounted
    /\ <<eventName, handler, element, options>>
         # <<evl.eventName, evl.handler, evl.element, evl.options>>
    /\ LET resubscribe == <<eventName, element, options>>
                            # <<evl.eventName, evl.element, evl.options>>
           l == ElRegister(eventName, element, options, evl.current,
                           1 - evl.registered.gen)
       IN  evl' = [evl EXCEPT
                    !.eventName = eventName, !.handler = handler,
                    !.element = element, !.options = options,
                    !.savedHandler =
                        IF handler # evl.handler
                        THEN ElSaveHandler(evl.savedHandler, handler)
                        ELSE evl.savedHandler,
                    !.registered = IF resubscribe THEN l ELSE evl.registered,
                    !.registry =
                        IF resubscribe
                        THEN ElCleanup(evl.registry, evl.registered) \cup {l}
                        ELSE evl.registry,
                    !.calls =
                        IF resubscribe
                        THEN <<"removeEventListener", "addEventListener">>
                        ELSE <<>>,
                    !.last = ElNoEvent]
    /\ UNCHANGED <<now, db, thr, st, log, cf, co, io, cb, pv, mq, ws, pu, gm, ids>>

\* React attaches or detaches the element of the ref; no effect depends on it.
ElSetRef(current) ==
    /\ evl.mounted
    /\ current # evl.current
    /\ evl' = [evl EXCEPT !.current = current, !.calls = <<>>, !.last = ElNoEvent]
    /\ UNCHANGED <<now, db, thr, st, log, cf, co, io, cb, pv, mq, ws, pu, gm, ids>>

\* An event of the given type is delivered at a target: each listener
\* registered there for the type runs savedHandler.current(event).
ElDispatch(target, type) ==
    /\ evl' = [evl EXCEPT
                 !.calls = <<>>,
                 !.last = [type |-> type, target |-> target,
                           received |-> {evl.savedHandler : l \in
                                {l \in evl.registry :
                                    l.target = target /\ l.type = type}}]]
    /\ UNCHANGED <<now, db, thr, st, log, cf, co, io, cb, pv, mq, ws, pu, gm, ids>>

\* Unmount: React runs the cleanup of the second effect.
ElUnmount ==
    /\ evl.mounted
    /\ evl' = [evl EXCEPT !.mounted = FALSE,
                          !.registry = ElCleanup(evl.registry, evl.registered),
                          !.calls = <<"removeEventListener">>,
                          !.last = ElNoEvent]
    /\ UNCHANGED <<now, db, thr, st, log, cf, co, io, cb, pv, mq, ws, pu, gm, ids>>

\* The component mounts again: a new instance, its listener a new closure.
ElRemount(eventName, handler, element, options) ==
    /\ ~evl.mounted
    /\ LET l == ElRegister(eventName, element, options, evl.current,
                           1 - evl.registered.gen)
       IN  evl' = [ElMount(eventName, handler, element, options, evl.current)
                     EXCEPT !.registered = l, !.registry = evl.registry \cup {l}]
    /\ UNCHANGED <<now, db, thr, st, log, cf, co, io, cb, pv, mq, ws, pu, gm, ids>>

ElNext ==
    \/ \E eventName \in ElEventNames, handler \in ElHandlers,
          element \in ElElements, options \in ElOptions :
            ElRender(eventName, handler, element, options)
    \/ \E current \in {NoElement, "div"} : ElSetRef(current)
    \/ \E target \in ElTargets, type \in ElEventNames : ElDispatch(target, type)

(***************************************************************************)
(* useIntersectionObserver                                                 *)
(*                                                                         *)
(* io.ratio is how much of the element is in view, in percent; the page    *)
(* scrolls at will.  An observer owes a notification from the moment it    *)
(* starts observing and after every scroll, and its callback receives the  *)
(* entry of the one observed element.                                      *)
(***************************************************************************)
IoRatios == {0, 25, 50, 100}
IoThresholds == {"threshold0", "threshold1", "thresholdList"}
NoEntry == [isIntersecting |-> FALSE, none |-> TRUE]

\* A hook that never freezes.
IoFrozenNever(entry, freezeOnceVisible) == "false"

\* const frozen = entry?.isIntersecting && freezeOnceVisible: undefined while
\* there is no entry, a boolean afterwards.
IoFrozenValue(entry, freezeOnceVisible) ==
    IF entry = NoEntry THEN "undefined"
    ELSE IF entry.isIntersecting /\ freezeOnceVisible THEN "true" ELSE "false"

\* The effect body: no observer without an element, when frozen, or where
\* IntersectionObserver is missing; else a new observer observes the element.
IoEffect(h, gen) ==
    IF h.element = NoElement \/ IoFrozenValue(h.entry, h.freezeOnceVisible) = "true"
       \/ ~h.supported
    THEN h
    ELSE [h EXCEPT !.observers =
            h.observers \cup {[gen |-> gen, threshold |-> h.threshold, owes |-> TRUE]}]

\* The effect cleanup: observer.disconnect().
IoCleanup(h) == [h EXCEPT !.observers = {}]

IoGen(h) == IF \E o \in h.observers : o.gen = 0 THEN 1 ELSE 0

IoInit ==
    \E freezeOnceVisible \in BOOLEAN, element \in {NoElement, "div"},
       supported \in BOOLEAN, ratio \in IoRatios :
        io = IoEffect([freezeOnceVisible |-> freezeOnceVisible,
                       threshold |-> "threshold0", element |-> element,
                       supported |-> supported, ratio |-> ratio,
                       entry |-> NoEntry, observers |-> {}], 0)

\* A render with another threshold (a dependency of the effect).
IoRender(threshold) ==
    /\ threshold # io.threshold
    /\ io' = IoEffect(IoCleanup([io EXCEPT !.threshold = threshold]), IoGen(io))
    /\ UNCHANGED <<now, db, thr, st, log, cf, co, evl, cb, pv, mq, ws, pu, gm, ids>>

\* The page scrolls: the intersection changes and each observer owes an entry.
IoScroll(ratio) ==
    /\ ratio # io.ratio
    /\ io' = [io EXCEPT
                !.ratio = ratio,
                !.observers = {[o EXCEPT !.owes = TRUE] : o \in io.observers}]
    /\ UNCHANGED <<now, db, thr, st, log, cf, co, evl, cb, pv, mq, ws, pu, gm, ids>>

\* The observer callback, ([entry]) => setEntry(entry), and the render it
\* causes: when `frozen` changed, the cleanup disconnects and the effect runs.
IoCallback(o) ==
    /\ o \in io.observers
    /\ o.owes
    /\ LET entry == [isIntersecting |-> io.ratio > 0, intersectionRatio |-> io.ratio]
           set == [io EXCEPT !.entry = entry,
                             !.observers = (io.observers \ {o})
                                             \cup {[o EXCEPT !.owes = FALSE]}]
       IN  io' = IF IoFrozenValue(entry, io.freezeOnceVisible)
                    # IoFrozenValue(io.entry, io.freezeOnceVisible)
                 THEN IoEffect(IoCleanup(set), IoGen(io))
                 ELSE set
    /\ UNCHANGED <<now, db, thr, st, log, cf, co, evl, cb, pv, mq, ws, pu, gm, ids>>

IoNext ==
    \/ \E threshold \in IoThresholds : IoRender(threshold)
    \/ \E ratio \in IoRatios : IoScroll(ratio)
    \/ \E o \in io.observers : IoCallback(o)

(***************************************************************************)
(* useCopyToClipboard                                                      *)
(*                                                                         *)
(* The hook runs in a page, where the global `navigator` is declared; what *)
(* it holds varies.  A call of the async `copy` is a record of its text,   *)
(* the state of its clipboard write and the state of the promise it        *)
(* returned.  Writes settle in any order.                                  *)
(***************************************************************************)
MaxCopies == 3
CbTexts == {"x", "y"}
CbEnvs == {"navigatorUndefined", "noClipboard", "noWriteText", "clipboard"}

\* !navigator?.clipboard
CbUnsupported(env) == env \in {"navigatorUndefined", "noClipboard"}

\* An exception that escapes the async function rejects its promise.
CbNoCatch(h, i) == [h EXCEPT !.calls[i].promise = "rejected"]

\* catch (error) { console.warn(...); setCopiedText(null); return false; }
CbCatch(h, i) == [h EXCEPT !.copiedText = Null, !.calls[i].promise = "false"]

\* setCopiedText(text); return true;
CbWritten(h, i) ==
    [h EXCEPT !.copiedText = Str(h.calls[i].text), !.calls[i].promise = "true"]

CbInit ==
    \E env \in CbEnvs :
        cb = [env |-> env, copiedText |-> Null, calls |-> <<>>, resetSince |-> FALSE]

\* copy(text) up to its await: false without the Clipboard API; a TypeError
\* inside the try where writeText is no function; else the write is pending.
CbCopy(text) ==
    /\ Len(cb.calls) < MaxCopies
    /\ LET i == Len(cb.calls) + 1
           call(write, promise) ==
               [cb EXCEPT !.resetSince = FALSE,
                          !.calls = Append(cb.calls,
                    [text |-> text, write |-> write, promise |-> promise])]
       IN  cb' = IF CbUnsupported(cb.env) THEN call("none", "false")
                 ELSE IF cb.env = "noWriteText"
                      THEN CbCatch(call("typeError", "pending"), i)
                      ELSE call("pending", "pending")
    /\ UNCHANGED <<now, db, thr, st, log, cf, co, evl, io, pv, mq, ws, pu, gm, ids>>

\* The promise of writeText settles and the call resumes after its await.
CbWriteSettle(i, ok) ==
    /\ i \in 1..Len(cb.calls)
    /\ cb.calls[i].write = "pending"
    /\ LET settled == [cb EXCEPT !.resetSince = @ /\ i # Len(cb.calls)]
       IN  cb' = IF ok
                 THEN CbWritten([settled EXCEPT !.calls[i].write = "ok"], i)
                 ELSE CbCatch([settled EXCEPT !.calls[i].write = "failed"], i)
    /\ UNCHANGED <<now, db, thr, st, log, cf, co, evl, io, pv, mq, ws, pu, gm, ids>>

\* reset()
CbReset ==
    /\ cb' = [cb EXCEPT !.copiedText = Null, !.resetSince = TRUE]
    /\ UNCHANGED <<now, db, thr, st, log, cf, co, evl, io, pv, mq, ws, pu, gm, ids>>

CbNext ==
    \/ \E text \in CbTexts : CbCopy(text)
    \/ \E i \in 1..MaxCopies, ok \in BOOLEAN : CbWriteSettle(i, ok)
    \/ CbReset

(***************************************************************************)
(* usePrevious                                                             *)
(*                                                                         *)
(* pv.renders lists, per render, the value passed and the value returned.  *)
(***************************************************************************)
MaxRenders == 4
PvValues == {Undefined, Str("a"), Str("b")}

\* A hook that returns the value of the current render.
PvReturnCurrent(current, value) == value

\* return ref.current, read during the render
PvReturn(current, value) == current

\* useEffect(() => { ref.current = value }, [value]): runs after the first
\* render and after each render whose value is another one.
PvEffect(h, value) ==
    IF h.renders = <<>> \/ h.dep # value
    THEN [h EXCEPT !.current = value, !.dep = value]
    ELSE h

\* Before the first render: useRef<T>(undefined).
PvInit == pv = [current |-> Undefined, dep |-> Undefined, renders |-> <<>>]

\* A render with `value`, and the effect after it.
PvRender(value) ==
    /\ Len(pv.renders) < MaxRenders
    /\ pv' = [PvEffect(pv, value) EXCEPT !.renders =
                Append(pv.renders, [value |-> value,
                                    returned |-> PvReturn(pv.current, value)])]
    /\ UNCHANGED <<now, db, thr, st, log, cf, co, evl, io, cb, mq, ws, pu, gm, ids>>

PvNext == \E value \in PvValues : PvRender(value)

(***************************************************************************)
(* useMediaQuery                                                           *)
(*                                                                         *)
(* mq.media tells, per query, whether the environment matches it.  Each    *)
(* window.matchMedia call returns a MediaQueryList of its own; a listener  *)
(* is the record of its registration there, `gen` telling the closures of  *)
(* two effect runs apart.  mq.last is the last change event and the        *)
(* listeners it invoked.                                                   *)
(***************************************************************************)
MqQueries == {"(max-width: 767px)", "(prefers-color-scheme: dark)"}
MqNoEvent == [query |-> "none", invoked |-> {}]

\* The effect cleanup: removeEventListener('change', handleChange), or
\* removeListener(handleChange) on a MediaQueryList of the older interface.
MqCleanup(h) == [h EXCEPT !.listeners = h.listeners \ {h.registered}]

\* The effect: setMatches(mediaQuery.matches), then the change listener is
\* registered through addEventListener, or addListener where that is missing.
MqEffect(h, gen) ==
    LET l == [query |-> h.query, gen |-> gen,
              api |-> IF h.legacy THEN "addListener" ELSE "addEventListener"]
    IN  [h EXCEPT !.matches = h.media[h.query],
                  !.registered = l,
                  !.listeners = h.listeners \cup {l}]

\* First render, useState(getMatches(query)), and the effect.
MqMount(query, media, legacy, listeners, gen) ==
    MqEffect([mounted |-> TRUE, query |-> query, matches |-> media[query],
              media |-> media, legacy |-> legacy, registered |-> MqNoEvent,
              listeners |-> listeners, last |-> MqNoEvent], gen)

MqInit ==
    \E query \in MqQueries, media \in [MqQueries -> BOOLEAN], legacy \in BOOLEAN :
        mq = MqMount(query, media, legacy, {}, 0)

\* A render with another query: cleanup, then the effect.
MqRender(query) ==
    /\ mq.mounted
    /\ query # mq.query
    /\ mq' = MqEffect([MqCleanup(mq) EXCEPT !.query = query, !.last = MqNoEvent],
                      1 - mq.registered.gen)
    /\ UNCHANGED <<now, db, thr, st, log, cf, co, evl, io, cb, pv, ws, pu, gm, ids>>

\* The environment starts or stops matching a query: the change event runs
\* handleChange, setMatches(event.matches), of each listener of that query.
MqChange(query) ==
    /\ LET matches == ~mq.media[query]
           invoked == {l \in mq.listeners : l.query = query}
       IN  mq' = [mq EXCEPT !.media[query] = matches,
                            !.matches = IF invoked # {} THEN matches ELSE @,
                            !.last = [query |-> query, invoked |-> invoked]]
    /\ UNCHANGED <<now, db, thr, st, log, cf, co, evl, io, cb, pv, ws, pu, gm, ids>>

\* Unmount: React runs the cleanup of the last effect.
MqUnmount ==
    /\ mq.mounted
    /\ mq' = [MqCleanup(mq) EXCEPT !.mounted = FALSE, !.last = MqNoEvent]
    /\ UNCHANGED <<now, db, thr, st, log, cf, co, evl, io, cb, pv, ws, pu, gm, ids>>

\* The component mounts again: a new instance in the same window.
MqRemount(query) ==
    /\ ~mq.mounted
    /\ mq' = MqMount(query, mq.media, mq.legacy, mq.listeners,
                     1 - mq.registered.gen)
    /\ UNCHANGED <<now, db, thr, st, log, cf, co, evl, io, cb, pv, ws, pu, gm, ids>>

MqNext ==
    \/ \E query \in MqQueries : MqRender(query)
    \/ \E query \in MqQueries : MqChange(query)
    \/ MqUnmount
    \/ \E query \in MqQueries : MqRemount(query)

(***************************************************************************)
(* useWindowSize                                                           *)
(*                                                                         *)
(* ws.inner is window.innerWidth x window.innerHeight; ws.last holds the   *)
(* listeners the last resize event invoked.                                *)
(***************************************************************************)
WsSizes == {[width |-> 320, height |-> 480], [width |-> 768, height |-> 1024],
            [width |-> 1280, height |-> 720]}

\* The effect cleanup: window.removeEventListener('resize', handleResize).
WsCleanup(h) == [h EXCEPT !.listeners = h.listeners \ {h.registered}]

\* The effect: handleResize() once, then window.addEventListener('resize', ...).
WsEffect(h, gen) ==
    LET l == [type |-> "resize", gen |-> gen]
    IN  [h EXCEPT !.windowSize = h.inner,
                  !.registered = l,
                  !.listeners = h.listeners \cup {l}]

\* First render, useState of the window's size, and the effect.
WsMount(inner, listeners, gen) ==
    WsEffect([mounted |-> TRUE, windowSize |-> inner, inner |-> inner,
              registered |-> [type |-> "none", gen |-> 1],
              listeners |-> listeners, last |-> {}], gen)

WsInit == \E inner \in WsSizes : ws = WsMount(inner, {}, 0)

\* The window is resized: each resize listener runs handleResize.
WsResize(size) ==
    /\ size # ws.inner
    /\ ws' = [ws EXCEPT !.inner = size,
                        !.windowSize = IF ws.listeners # {} THEN size ELSE @,
                        !.last = ws.listeners]
    /\ UNCHANGED <<now, db, thr, st, log, cf, co, evl, io, cb, pv, mq, pu, gm, ids>>

\* Unmount: React runs the cleanup of the effect.
WsUnmount ==
    /\ ws.mounted
    /\ ws' = [WsCleanup(ws) EXCEPT !.mounted = FALSE, !.last = {}]
    /\ UNCHANGED <<now, db, thr, st, log, cf, co, evl, io, cb, pv, mq, pu, gm, ids>>

\* The component mounts again: a new instance in the same window.
WsRemount ==
    /\ ~ws.mounted
    /\ ws' = WsMount(ws.inner, ws.listeners, 1 - ws.registered.gen)
    /\ UNCHANGED <<now, db, thr, st, log, cf, co, evl, io, cb, pv, mq, pu, gm, ids>>

WsNext ==
    \/ \E size \in WsSizes : WsResize(size)
    \/ WsUnmount
    \/ WsRemount

(***************************************************************************)
(* Pure utilities: mask, repeat (string/manipulation.ts), isJSON and       *)
(* formatNumber.                                                           *)
(*                                                                         *)
(* A call either returns a value or throws; pu.call is the call and        *)
(* pu.outcome what it did.  Strings are TLA+ strings, numbers integers.    *)
(***************************************************************************)
Return(v) == [t |-> "return", value |-> v]
RangeError == [t |-> "throw", error |-> "RangeError"]

\* The index String.prototype.slice starts or ends at: a negative index counts
\* from the end, and the result is clamped to 0..len.
JsSliceIndex(i, len) ==
    IF i < 0 THEN (IF len + i < 0 THEN 0 ELSE len + i)
    ELSE IF i > len THEN len ELSE i

\* str.slice(start, end)
JsSlice(str, start, end) ==
    LET from == JsSliceIndex(start, Len(str))
        to == JsSliceIndex(end, Len(str))
    IN  IF from < to THEN SubSeq(str, from + 1, to) ELSE ""

RECURSIVE JsRepeatText(_, _)
JsRepeatText(str, count) ==
    IF count = 0 THEN "" ELSE str \o JsRepeatText(str, count - 1)

\* str.repeat(count): a RangeError for a negative count.
JsRepeat(str, count) ==
    IF count < 0 THEN RangeError ELSE Return(JsRepeatText(str, count))

\* repeat(str, count)
repeat(str, count) == JsRepeat(str, count)

\* mask(str, start, end, maskChar); `end` is a number or undefined.
mask(str, start, end, maskChar) ==
    LET endPos == IF end \in {Undefined, Null} THEN Len(str) ELSE end.n
        head == JsSlice(str, 0, start)
        fill == JsRepeat(maskChar, endPos - start)
    IN  IF fill.t = "throw" THEN fill
        ELSE Return(head \o fill.value \o JsSlice(str, endPos, Len(str)))

\* isJSON(str)
isJSON(str) == Return(JSONParse(str) # SyntaxError)

JsIsDigit(c) == \E d \in 0..9 : ToString(d) = c
JsDigit(c) == CHOOSE d \in 0..9 : ToString(d) = c

\* The number of leading decimal digits of a string.
RECURSIVE JsLeadingDigits(_)
JsLeadingDigits(str) ==
    IF str = "" \/ ~JsIsDigit(SubSeq(str, 1, 1)) THEN 0
    ELSE 1 + JsLeadingDigits(SubSeq(str, 2, Len(str)))

RECURSIVE JsDigitsValue(_)
JsDigitsValue(digits) ==
    IF digits = "" THEN 0
    ELSE 10 * JsDigitsValue(SubSeq(digits, 1, Len(digits) - 1))
            + JsDigit(SubSeq(digits, Len(digits), Len(digits)))

\* parseFloat over unsigned integer prefixes: the number the leading digits
\* spell, NaN when there is none.
JsParseFloat(str) ==
    IF JsLeadingDigits(str) = 0 THEN NaN
    ELSE Num(JsDigitsValue(SubSeq(str, 1, JsLeadingDigits(str))))

RECURSIVE JsZeros(_)
JsZeros(n) == IF n = 0 THEN "" ELSE "0" \o JsZeros(n - 1)

\* num.toFixed(decimals) of an integer: a RangeError unless 0 <= decimals <= 100.
JsToFixed(n, decimals) ==
    IF decimals < 0 \/ decimals > 100 THEN RangeError
    ELSE Return([int |-> ToString(n),
                 frac |-> IF decimals = 0 THEN "" ELSE JsZeros(decimals)])

\* parts[0].replace(/\B(?=(\d{3})+(?!\d))/g, separator), from the k-th
\* character on: the separator goes between two digits that are followed by a
\* multiple of three digits.
RECURSIVE FnGroup(_, _, _)
FnGroup(text, k, separator) ==
    IF k > Len(text) THEN ""
    ELSE (IF /\ k > 1
             /\ JsIsDigit(SubSeq(text, k - 1, k - 1))
             /\ (Len(text) - k + 1) % 3 = 0
          THEN separator ELSE "")
         \o SubSeq(text, k, k) \o FnGroup(text, k + 1, separator)

\* formatNumber(value, decimals, separator)
formatNumber(value, decimals, separator) ==
    LET num == IF value.t = "string" THEN JsParseFloat(value.s) ELSE value
        fixed == JsToFixed(num.n, decimals)
        integerPart == FnGroup(fixed.value.int, 1, separator)
        decimalPart == IF fixed.value.frac # "" THEN "." \o fixed.value.frac ELSE ""
    IN  IF num = NaN THEN Return("0")
        ELSE IF fixed.t = "throw" THEN fixed
        ELSE Return(integerPart \o decimalPart)

PuStrings == {"", "ab", "12345"}
PuIndices == {Num(n) : n \in -1..3}
PuCounts == -1..3
PuTexts == {"1", "null", "{", "ab"}
PuNumbers == {Num(0), Num(-1234), Num(1234567), NaN, Str("1234"), Str("abc")}
PuDecimals == {-1, 0, 2, 100, 101}
PuSeparators == {",", "."}
NoOutcome == [t |-> "none"]

PuCalls ==
    {[fn |-> "mask", str |-> s, start |-> i.n, end |-> e] :
        s \in PuStrings, i \in PuIndices, e \in PuIndices \cup {Undefined}}
    \cup {[fn |-> "repeat", str |-> s, count |-> c] :
            s \in PuStrings, c \in PuCounts}
    \cup {[fn |-> "isJSON", str |-> s] : s \in PuTexts}
    \cup {[fn |-> "formatNumber", value |-> v, decimals |-> d, separator |-> p] :
            v \in PuNumbers, d \in PuDecimals, p \in PuSeparators}

PuInit == \E c \in PuCalls : pu = [call |-> c, outcome |-> NoOutcome]

PuMask ==
    /\ pu.call.fn = "mask" /\ pu.outcome = NoOutcome
    /\ pu' = [pu EXCEPT !.outcome = mask(pu.call.str, pu.call.start, pu.call.end, "*")]
    /\ UNCHANGED <<now, db, thr, st, log, cf, co, evl, io, cb, pv, mq, ws, gm, ids>>

PuRepeat ==
    /\ pu.call.fn = "repeat" /\ pu.outcome = NoOutcome
    /\ pu' = [pu EXCEPT !.outcome = repeat(pu.call.str, pu.call.count)]
    /\ UNCHANGED <<now, db, thr, st, log, cf, co, evl, io, cb, pv, mq, ws, gm, ids>>

PuIsJSON ==
    /\ pu.call.fn = "isJSON" /\ pu.outcome = NoOutcome
    /\ pu' = [pu EXCEPT !.outcome = isJSON(pu.call.str)]
    /\ UNCHANGED <<now, db, thr, st, log, cf, co, evl, io, cb, pv, mq, ws, gm, ids>>

PuFormatNumber ==
    /\ pu.call.fn = "formatNumber" /\ pu.outcome = NoOutcome
    /\ pu' = [pu EXCEPT !.outcome =
                formatNumber(pu.call.value, pu.call.decimals, pu.call.separator)]
    /\ UNCHANGED <<now, db, thr, st, log, cf, co, evl, io, cb, pv, mq, ws, gm, ids>>

PuNext == PuMask \/ PuRepeat \/ PuIsJSON \/ PuFormatNumber

(***************************************************************************)
(* formatPhoneNumber (form/formatter.ts)                                   *)
(*                                                                         *)
(* pu.call.value is the input, pu.outcome the first result and pu.again    *)
(* the result of formatting that result once more.                         *)
(***************************************************************************)
PhMaxLen == 14
PhChars == {"0", "1", "-", " "}

\* A cleaning that keeps every character.
PhCleanedKeep(value) == value

\* value.replace(/[^0-9]/g, '')
RECURSIVE PhCleaned(_)
PhCleaned(value) ==
    IF value = "" THEN ""
    ELSE (IF JsIsDigit(SubSeq(value, 1, 1)) THEN SubSeq(value, 1, 1) ELSE "")
         \o PhCleaned(SubSeq(value, 2, Len(value)))

\* formatPhoneNumber(value)
formatPhoneNumber(value) ==
    LET cleaned == PhCleaned(value)
        len == Len(cleaned)
    IN  IF len <= 3 THEN cleaned
        ELSE IF len <= 7
             THEN JsSlice(cleaned, 0, 3) \o "-" \o JsSlice(cleaned, 3, len)
        ELSE IF len <= 11
             THEN JsSlice(cleaned, 0, 3) \o "-" \o JsSlice(cleaned, 3, 7)
                      \o "-" \o JsSlice(cleaned, 7, len)
        ELSE JsSlice(cleaned, 0, 3) \o "-" \o JsSlice(cleaned, 3, 7)
                 \o "-" \o JsSlice(cleaned, 7, 11)

\* Every string of up to n of the characters.
RECURSIVE PhStringsUpTo(_)
PhStringsUpTo(n) ==
    IF n = 0 THEN {""}
    ELSE PhStringsUpTo(n - 1)
            \cup {s \o c : s \in PhStringsUpTo(n - 1), c \in PhChars}

\* The first n digits of 0123456789012...
RECURSIVE PhDigits(_)
PhDigits(n) == IF n = 0 THEN "" ELSE PhDigits(n - 1) \o ToString((n - 1) % 10)

\* The digits with a hyphen after the third and the seventh, as a user types
\* or pastes a number that is already formatted.
PhHyphenated(digits) ==
    JsSlice(digits, 0, 3) \o "-" \o JsSlice(digits, 3, 7) \o "-"
        \o JsSlice(digits, 7, Len(digits))

PhInputs ==
    PhStringsUpTo(4)
        \cup {PhDigits(n) : n \in 5..PhMaxLen}
        \cup {PhHyphenated(PhDigits(n)) : n \in 5..PhMaxLen}

PhInit ==
    \E x \in PhInputs :
        pu = [call |-> [fn |-> "formatPhoneNumber", value |-> x],
              outcome |-> NoOutcome, again |-> NoOutcome]

PhFormat ==
    /\ pu.outcome = NoOutcome
    /\ pu' = [pu EXCEPT !.outcome = Return(formatPhoneNumber(pu.call.value))]
    /\ UNCHANGED <<now, db, thr, st, log, cf, co, evl, io, cb, pv, mq, ws, gm, ids>>

PhFormatAgain ==
    /\ pu.outcome # NoOutcome /\ pu.again = NoOutcome
    /\ pu' = [pu EXCEPT !.again = Return(formatPhoneNumber(pu.outcome.value))]
    /\ UNCHANGED <<now, db, thr, st, log, cf, co, evl, io, cb, pv, mq, ws, gm, ids>>

PhNext == PhFormat \/ PhFormatAgain

(***************************************************************************)
(* calculateDiscount / calculateDiscountedPrice                            *)
(*                                                                         *)
(* Prices given to the functions are whole numbers; a percentage and a     *)
(* returned price are held as their count of hundredths, which is exact    *)
(* because both functions round to two decimals.  The arithmetic is that   *)
(* of the reals; the error of binary floating point is left out.           *)
(***************************************************************************)
DcMaxSmall == 100
DcLargePrices == {8000, 9999, 10000, 29999, 30000}
DcPrices == 0..DcMaxSmall \cup DcLargePrices

\* A rounding that drops the fraction.
DcTruncate(a, b) == a \div b

\* Math.round(a / b) for b > 0: the nearest integer, a half rounded up.
MathRound(a, b) == (2 * a + b) \div (2 * b)

\* calculateDiscount(originalPrice, discountedPrice), in hundredths of a percent
calculateDiscount(originalPrice, discountedPrice) ==
    IF originalPrice <= 0 THEN 0
    ELSE MathRound((originalPrice - discountedPrice) * 10000, originalPrice)

\* calculateDiscountedPrice(originalPrice, discountPercent), discountPercent
\* and the result in hundredths
calculateDiscountedPrice(originalPrice, discountPercent) ==
    MathRound(originalPrice * 10000 - originalPrice * discountPercent, 100)

DcInit ==
    \E o \in DcPrices \ {0}, d \in DcPrices :
        /\ d <= o
        /\ pu = [call |-> [fn |-> "calculateDiscount", originalPrice |-> o,
                           discountedPrice |-> d],
                 outcome |-> NoOutcome, again |-> NoOutcome]

DcCalculateDiscount ==
    /\ pu.outcome = NoOutcome
    /\ pu' = [pu EXCEPT !.outcome =
                Return(calculateDiscount(pu.call.originalPrice,
                                         pu.call.discountedPrice))]
    /\ UNCHANGED <<now, db, thr, st, log, cf, co, evl, io, cb, pv, mq, ws, gm, ids>>

DcCalculateDiscountedPrice ==
    /\ pu.outcome # NoOutcome /\ pu.again = NoOutcome
    /\ pu' = [pu EXCEPT !.again =
                Return(calculateDiscountedPrice(pu.call.originalPrice,
                                                pu.outcome.value))]
    /\ UNCHANGED <<now, db, thr, st, log, cf, co, evl, io, cb, pv, mq, ws, gm, ids>>

DcNext == DcCalculateDiscount \/ DcCalculateDiscountedPrice

(***************************************************************************)
(* FormDevTools: handleGenerateMock                                        *)
(*                                                                         *)
(* gm.isGenerating and gm.generateError are the React state; gm.disabled   *)
(* is the disabled attribute the last render gave the button; gm.runs are  *)
(* the calls of handleGenerateMock suspended at an await, each with the    *)
(* call it waits for; gm.last tells how the last finished call ended.  A   *)
(* step is one task and the render it causes.                              *)
(***************************************************************************)
MaxRuns == 3
GmError(message) == [t |-> "error", message |-> message]
\* What generateMock, setValue or trigger may throw or reject with.
GmThrown == {GmError("boom"), GmError(""), Undefined}
\* mockData: an object of fields, or null from a generator that has none.
GmMockData == {Obj(<< <<"a", Num(1)>> >>), Obj(<< <<"a", Num(2)>> >>), Null}
GmTypeError == GmError("Cannot read properties")
NoThrow == [t |-> "nothing"]
NoRun == [how |-> "none", where |-> "", error |-> NoThrow]

\* The catch block: setGenerateError(error.message || fallback); reading
\* .message of undefined throws out of the catch block, nothing is set.
GmCatch(g, error) ==
    IF error = Undefined THEN g
    ELSE [g EXCEPT !.generateError =
            IF error.message # "" THEN Str(error.message)
            ELSE Str("Mock generation failed")]

\* finally { setIsGenerating(false) }, the end of the call and the render.
GmFinally(g, how) ==
    [g EXCEPT !.isGenerating = FALSE, !.disabled = FALSE, !.runs = <<>>,
              !.last = how]

GmCompleted == [how |-> "completed", where |-> "", error |-> NoThrow]

GmThrow(g, where, error) ==
    GmFinally(GmCatch(g, error), [how |-> "threw", where |-> where, error |-> error])

GmInit ==
    \E trigger \in BOOLEAN :
        gm = [trigger |-> trigger, isGenerating |-> FALSE, disabled |-> FALSE,
              generateError |-> Null, runs |-> <<>>, started |-> 0,
              values |-> Obj(<<>>), last |-> NoRun]

\* A click on the button, which the browser delivers unless the button is
\* disabled: the handler up to `await generateMock(...)`.  generateMock
\* returns a promise or a value (`sync` nothing) or throws at once.
GmClick(sync) ==
    /\ ~gm.disabled
    /\ gm.started < MaxRuns
    /\ LET begun == [gm EXCEPT !.isGenerating = TRUE, !.disabled = TRUE,
                               !.generateError = Null,
                               !.started = gm.started + 1, !.last = NoRun]
       IN  gm' = IF sync = NoThrow
                 THEN [begun EXCEPT !.runs = gm.runs \o <<"generateMock">>]
                 ELSE GmThrow(begun, "generateMock threw", sync)
    /\ UNCHANGED <<now, db, thr, st, log, cf, co, evl, io, cb, pv, mq, ws, pu, ids>>

\* generateMock's promise is fulfilled with mockData: setNestedValue calls
\* setValue per field (Object.keys(null) throws), then trigger if there is one.
GmMockResolve(mockData, setValueThrows, triggerThrows) ==
    /\ gm.runs # <<>> /\ Head(gm.runs) = "generateMock"
    /\ LET set == [gm EXCEPT !.values = mockData]
       IN  gm' = IF mockData = Null THEN GmThrow(gm, "setNestedValue", GmTypeError)
                 ELSE IF setValueThrows # NoThrow
                      THEN GmThrow(gm, "setValue", setValueThrows)
                 ELSE IF ~gm.trigger THEN GmFinally(set, GmCompleted)
                 ELSE IF triggerThrows # NoThrow
                      THEN GmThrow(set, "trigger", triggerThrows)
                 ELSE [set EXCEPT !.runs = <<"trigger">> \o Tail(gm.runs)]
    /\ UNCHANGED <<now, db, thr, st, log, cf, co, evl, io, cb, pv, mq, ws, pu, ids>>

\* generateMock's promise is rejected.
GmMockReject(error) ==
    /\ gm.runs # <<>> /\ Head(gm.runs) = "generateMock"
    /\ gm' = GmThrow(gm, "generateMock rejected", error)
    /\ UNCHANGED <<now, db, thr, st, log, cf, co, evl, io, cb, pv, mq, ws, pu, ids>>

\* trigger's promise settles.
GmTriggerSettle(error) ==
    /\ gm.runs # <<>> /\ Head(gm.runs) = "trigger"
    /\ gm' = IF error = NoThrow THEN GmFinally(gm, GmCompleted)
             ELSE GmThrow(gm, "trigger", error)
    /\ UNCHANGED <<now, db, thr, st, log, cf, co, evl, io, cb, pv, mq, ws, pu, ids>>

GmNext ==
    \/ \E sync \in GmThrown \cup {NoThrow} : GmClick(sync)
    \/ \E mockData \in GmMockData, s \in GmThrown \cup {NoThrow},
          t \in GmThrown \cup {NoThrow} : GmMockResolve(mockData, s, t)
    \/ \E error \in GmThrown : GmMockReject(error)
    \/ \E error \in GmThrown \cup {NoThrow} : GmTriggerSettle(error)

(***************************************************************************)
(* IdSelector: handleQuickLogin                                            *)
(*                                                                         *)
(* ids.loading is the React state (an index or null); ids.inflight are the *)
(* calls of handleQuickLogin suspended at `await onLogin(...)`, each with  *)
(* the index of its account and the number of the click that started it.  *)
(* A step is one task and the render it causes, so the button of account   *)
(* k is disabled exactly when ids.loading is k.                            *)
(***************************************************************************)
MaxLogins == 4
IdsAccounts == 0..2     \* the indices of infos

IdsInit ==
    ids = [loading |-> Null, inflight |-> {}, started |-> 0, last |-> "none"]

\* disabled={loading === index}
IdsDisabled(index) == ids.loading = Num(index)

\* A click on the button of an account: setLoading(index), then onLogin is
\* called; it returns a promise, or throws at once and finally runs.
IdsClick(index, throws) ==
    /\ ~IdsDisabled(index)
    /\ ids.started < MaxLogins
    /\ ids' = IF throws
              THEN [ids EXCEPT !.loading = Null, !.started = ids.started + 1,
                               !.last = "threw"]
              ELSE [ids EXCEPT !.loading = Num(index),
                               !.inflight = ids.inflight \cup
                                   {[index |-> index, click |-> ids.started + 1]},
                               !.started = ids.started + 1,
                               !.last = "started"]
    /\ UNCHANGED <<now, db, thr, st, log, cf, co, evl, io, cb, pv, mq, ws, pu, gm>>

\* The promise of an onLogin call settles: finally { setLoading(null) }.
IdsSettle(run, rejected) ==
    /\ run \in ids.inflight
    /\ ids' = [ids EXCEPT !.loading = Null,
                          !.inflight = ids.inflight \ {run},
                          !.last = IF rejected THEN "rejected" ELSE "resolved"]
    /\ UNCHANGED <<now, db, thr, st, log, cf, co, evl, io, cb, pv, mq, ws, pu, gm>>

IdsNext ==
    \/ \E index \in IdsAccounts, throws \in BOOLEAN : IdsClick(index, throws)
    \/ \E run \in ids.inflight, rejected \in BOOLEAN : IdsSettle(run, rejected)

(***************************************************************************)
(* Claims about useDebounce                                                *)
(***************************************************************************)

(* C1: in a burst of updates, each arriving less than the delay after the   *)
(* previous one, no intermediate value is committed; the final update is    *)
(* committed exactly once, `delay` after it arrived, and then the debounced *)
(* value is the input value.                                                *)

\* Update i was superseded less than its delay after it arrived.
DbIntermediate(i) ==
    /\ i < Len(db.updates)
    /\ db.updates[i + 1].at - db.updates[i].at < db.updates[i].delay

DbCommitted(i) == \E k \in 1..Len(db.commits) : db.commits[k].id = i

C1_DebounceCommitsOnlyFinal ==
    /\ \A k \in 1..Len(db.commits) :
          LET c == db.commits[k]
              u == db.updates[c.id]
          IN  /\ ~DbIntermediate(c.id)
              /\ c.val = u.val
              /\ c.at = u.at + u.delay
    /\ \A j, k \in 1..Len(db.commits) :
          j # k => db.commits[j].id # db.commits[k].id
    /\ LET n == Len(db.updates)
       IN  /\ now > db.updates[n].at + db.updates[n].delay => DbCommitted(n)
           /\ DbCommitted(n) => db.debouncedValue = db.value

\* A burst of three updates whose last one, and no other, has been committed.
C1_Witness ==
    /\ Len(db.updates) = 3
    /\ DbIntermediate(1)
    /\ DbIntermediate(2)
    /\ db.updates[1].val # db.updates[2].val
    /\ db.updates[2].val # db.updates[3].val
    /\ Len(db.commits) = 1
    /\ db.commits[1].id = 3

(***************************************************************************)
(* Claims about useThrottle                                                *)
(***************************************************************************)

ThrDepsChanged == <<thr.value, thr.interval>>' # <<thr.value, thr.interval>>

\* A change of the input: an immediate commit when the interval has elapsed
\* since the last commit, and otherwise no commit and exactly one trailing timer,
\* due at last commit + interval and carrying the new value.
ThrChangeStep ==
    ThrDepsChanged =>
        IF now - thr.lastExecuted >= thr'.interval
        THEN /\ thr'.throttledValue = thr'.value
             /\ thr'.lastExecuted = now
             /\ thr'.timers = {}
        ELSE /\ thr'.throttledValue = thr.throttledValue
             /\ thr'.lastExecuted = thr.lastExecuted
             /\ thr'.timers = {[due |-> thr.lastExecuted + thr'.interval,
                                val |-> thr'.value]}

\* A trailing commit: the one pending timer fires when it is due and commits
\* the latest input.
ThrTrailingStep ==
    (~ThrDepsChanged /\ thr'.commits # thr.commits) =>
        /\ thr.timers = {[due |-> now, val |-> thr.value]}
        /\ thr'.timers = {}
        /\ thr'.throttledValue = thr.value

(* C2: a changed input is committed at once if at least the interval has    *)
(* elapsed since the last commit; otherwise exactly one trailing commit is  *)
(* scheduled for last commit + interval and carries the latest value; once  *)
(* updates stop the throttled value eventually equals the latest input.     *)
C2_ThrottleImmediateOrTrailing ==
    /\ [][ThrChangeStep /\ ThrTrailingStep]_vars
    /\ <>[](thr.throttledValue = thr.value)

\* Both kinds of commit have happened: one by the effect, one by a timer that
\* was re-armed for a later value.
C2_Witness ==
    /\ thr.updates = 3
    /\ \E j, k \in 1..Len(thr.commits) :
          /\ thr.commits[j].by = "effect"
          /\ thr.commits[k].by = "timer"
          /\ thr.commits[k].val # thr.commits[j].val
    /\ thr.throttledValue = thr.value

(* C12: while the interval has been the same in every render, any two        *)
(* successive commits of the throttled value are at least the interval       *)
(* apart, whenever the input changes.                                        *)
C12_CommitsAtLeastIntervalApart ==
    thr.intervals = {thr.interval} =>
        \A j \in 1..(Len(thr.commits) - 1) :
            thr.commits[j + 1].at - thr.commits[j].at >= thr.interval

\* Three commits under one interval, the last two by the effect and by a
\* trailing timer.
C12_Witness ==
    /\ thr.intervals = {2}
    /\ Len(thr.commits) = 3
    /\ thr.commits[2].by = "effect"
    /\ thr.commits[3].by = "timer"
    /\ thr.commits[3].at - thr.commits[2].at = 2

(***************************************************************************)
(* Claims about the storage hooks                                          *)
(***************************************************************************)

StFailedOps == {"setValue threw", "removeValue threw"}

\* A read that fails (the item is no JSON text) yields the initial value.
StFailedReadFallsBack ==
    \A i \in StInstances :
        LET h == st.inst[i] IN
        (/\ st.last = [op |-> "mount", inst |-> i]
         /\ st.storage[h.key] # NoItem
         /\ JSONParse(st.storage[h.key]) = SyntaxError) =>
            h.state = h.initialValue /\ h.storedValue = h.initialValue

\* C14 as stated: no failure escapes, and the instance whose read, write or
\* remove failed holds its initial value afterwards.
C14_Original ==
    /\ st.last.op \notin {"setValue escaped", "removeValue escaped"}
    /\ StFailedReadFallsBack
    /\ st.last.op \in StFailedOps =>
          st.inst[st.last.inst].state = st.inst[st.last.inst].initialValue

(* C14, amended: a failing storage read, write or remove is caught, no       *)
(* exception reaches the caller; a failed read yields the initial value,     *)
(* while a failed write or remove leaves the storage and the value of every  *)
(* instance as they were.                                                    *)
C14_FailuresCaught ==
    /\ [](st.last.op \notin {"setValue escaped", "removeValue escaped"})
    /\ []StFailedReadFallsBack
    /\ [][st'.last.op \in StFailedOps =>
            (st'.storage = st.storage /\ st'.inst = st.inst)]_vars

\* A removeValue that failed on an instance holding a written value, not its
\* initial value.
C14_Witness ==
    /\ st.last.op = "removeValue threw"
    /\ st.inst[st.last.inst].state = Num(2)
    /\ st.inst[st.last.inst].initialValue = Num(1)
    /\ st.storage[st.inst[st.last.inst].key] = "2"

StWrites == {"setValue", "removeValue"}

StMountedIn(tab) ==
    {j \in StInstances : st.inst[j].mounted /\ st.inst[j].tab = tab}

\* After a write, the instances of the writer's tab have re-read once, by the
\* custom event, and no instance of another tab has re-read.
StCustomPath ==
    st.last.op \in StWrites =>
        LET tab == st.inst[st.last.inst].tab
        IN  /\ \A j \in StMountedIn(tab) : st.reads[j] = 1
            /\ \A j \in StInstances \ StMountedIn(tab) : st.reads[j] = 0

\* After the native event of a write, which comes from another tab, the
\* instances of the receiving tab with the key of the event have re-read
\* once and no other instance has re-read.
StNativePath ==
    st.last.op = "storage event" =>
        LET same == {j \in StMountedIn(st.last.tab) : st.inst[j].key = st.last.key}
        IN  /\ st.last.from # st.last.tab
            /\ \A j \in same : st.reads[j] = 1
            /\ \A j \in StInstances \ same : st.reads[j] = 0

C23_FunctionalUpdatesCompose ==
    st.last.op = "setValue twice" =>
        LET h == st.inst[st.last.inst]
            expected == StApply("next", StApply("next", st.last.before))
        IN  /\ h.state = expected
            /\ st.storage[h.key] = JSONStringify(expected)

\* The mounted instances of a tab that use the key.
StSameKey(tab, key) == {j \in StMountedIn(tab) : st.inst[j].key = key}

\* The value the instance returns from its next render is its initialValue.
StAtInitial(j) == st.inst[j].state = st.inst[j].initialValue

C26_OtherKeysUntouched ==
    [][\A i \in StInstances :
          (st'.last = [op |-> "setValue", inst |-> i]
             \/ st'.last = [op |-> "removeValue", inst |-> i]) =>
              \A j \in StInstances :
                  (st.inst[j].mounted /\ st.inst[j].key # st.inst[i].key) =>
                      st'.inst[j].state = st.inst[j].state]_vars

(***************************************************************************)
(* Claims about the API log store                                          *)
(***************************************************************************)

LogBounded == Len(log.globalLogs) <= LogCap

LogNewestFirst ==
    \A k \in 1..(Len(log.globalLogs) - 1) :
        log.globalLogs[k].id > log.globalLogs[k + 1].id

\* An add puts the new entry first and keeps the others in order; on a full
\* buffer it drops the last (oldest) entry and no other.
LogAddStep ==
    log'.created # log.created =>
        /\ log'.globalLogs[1].id = log'.created
        /\ IF Len(log.globalLogs) = LogCap
           THEN Tail(log'.globalLogs) = SubSeq(log.globalLogs, 1, LogCap - 1)
           ELSE Tail(log'.globalLogs) = log.globalLogs

(* C4: the global buffer never holds more than 100 entries, is ordered      *)
(* newest first, and an add to a full buffer evicts exactly the oldest      *)
(* entry.                                                                   *)
C4_LogBufferCappedNewestFirst ==
    /\ [](LogBounded /\ LogNewestFirst)
    /\ [][LogAddStep]_vars

\* A full buffer from which the two oldest entries have been evicted.
C4_Witness ==
    /\ Len(log.globalLogs) = LogCap
    /\ log.globalLogs[LogCap].id = 3
    /\ log.globalLogs[1].id = LogCap + 2

\* The buffer holds the entries created since the last clearApiLogs, the
\* newest LogCap of them at most, each as it was created.
LogEntriesPresent ==
    LET oldest == IF log.created - LogCap > log.cleared
                  THEN log.created - LogCap ELSE log.cleared
    IN  /\ Len(log.globalLogs) = log.created - oldest
        /\ \A k \in 1..Len(log.globalLogs) :
              log.globalLogs[k] =
                  [id |-> log.created - k + 1, method |-> "GET", url |-> "/api"]

\* An entry leaves the buffer only in a clearApiLogs call or once LogCap newer
\* entries have been added: in any other step the entries with fewer newer
\* ones are all still there, with their content and in their order, behind
\* the entries the step added.
LogKeepStep ==
    LET created == log'.created
        added == created - log.created
        young == SelectSeq(log.globalLogs, LAMBDA e : created - e.id < LogCap)
    IN  \/ log'.cleared # log.cleared
        \/ /\ Len(log'.globalLogs) = added + Len(young)
           /\ SubSeq(log'.globalLogs, added + 1, Len(log'.globalLogs)) = young

(* C15: an entry created by addApiLog stays in the buffer, unmodified and in *)
(* the same order relative to the other entries, until clearApiLogs is       *)
(* called or 100 newer entries have been added; no other operation removes   *)
(* or changes it.                                                            *)
C15_EntryLifecycle ==
    /\ []LogEntriesPresent
    /\ [][LogKeepStep]_vars

\* The oldest entry since the last clear sits in the last slot of a full
\* buffer, one add before its eviction, with a panel mounted.
C15_Witness ==
    /\ log.cleared = 2
    /\ log.created = LogCap + 2
    /\ Len(log.globalLogs) = LogCap
    /\ log.globalLogs[LogCap].id = 3
    /\ log.comps[1].mounted

LogMounted == {c \in LogComponents : log.comps[c].mounted}

(* C16: every mounted ApiLogger displays the first maxLogs entries of the    *)
(* global buffer (all of them when fewer), entries added before it mounted   *)
(* included, and the subscriber list holds exactly one listener per mounted  *)
(* ApiLogger, after any sequence of addApiLog, clearApiLogs, mounts,         *)
(* unmounts and maxLogs changes.                                             *)
C16_PanelsShowBuffer ==
    /\ \A c \in LogMounted :
          /\ log.comps[c].logs = Slice0(log.globalLogs, log.comps[c].maxLogs)
          /\ Cardinality({k \in 1..Len(log.logListeners) :
                            log.logListeners[k].comp = c}) = 1
    /\ Len(log.logListeners) = Cardinality(LogMounted)
    /\ \A k \in 1..Len(log.logListeners) :
          log.logListeners[k].maxLogs = log.comps[log.logListeners[k].comp].maxLogs

\* Two panels on a buffer of three entries: one shows two of them after a
\* change of its maxLogs, the other mounted after the adds and shows all.
C16_Witness ==
    /\ Len(log.globalLogs) = 3
    /\ log.comps[1].mounted /\ log.comps[1].maxLogs = 2
    /\ Len(log.comps[1].logs) = 2
    /\ log.comps[2].mounted /\ log.comps[2].maxLogs = 50
    /\ Len(log.comps[2].logs) = 3
    /\ log.logListeners = <<[comp |-> 2, maxLogs |-> 50], [comp |-> 1, maxLogs |-> 2]>>

(***************************************************************************)
(* Claims about getChangedFields                                           *)
(***************************************************************************)

JsKeySet(v) == {JsEntries(v)[k][1] : k \in 1..Len(JsEntries(v))}

\* Structural (deep) equality: same type, same properties with deeply equal
\* values whatever their order, same elements in order.
RECURSIVE DeepEqual(_, _)
DeepEqual(x, y) ==
    IF x.t # y.t THEN FALSE
    ELSE IF x.t \in {"object", "array"}
         THEN /\ JsKeySet(x) = JsKeySet(y)
              /\ \A key \in JsKeySet(x) : DeepEqual(JsGet(x, key), JsGet(y, key))
         ELSE x = y

CfHasEntry(keys, from, to) ==
    /\ CfJoin(keys) \in DOMAIN cf.changedFields
    /\ cf.changedFields[CfJoin(keys)] = [from |-> from, to |-> to]

(* C5: with original values supplied, the result has an entry at path p,     *)
(* with from = the original and to = the current value at p, if and only if  *)
(* the marker at p is literally true and the two values are structurally     *)
(* (deeply) different.                                                       *)
C5_ChangedIffDirtyAndDeeplyDifferent ==
    (cf.rendered /\ cf.originalValues # Undefined) =>
        \A keys \in CfKeyLists :
            LET currentValue == CfReduce(cf.values, keys)
                originalValue == CfReduce(cf.originalValues, keys)
            IN  CfHasEntry(keys, originalValue, currentValue)
                <=> (/\ CfReduce(cf.dirtyFields, keys) = True
                     /\ ~DeepEqual(currentValue, originalValue))

(* C18: when no originalValues is supplied, every leaf marked true in the     *)
(* dirty tree is reported as changed, with from = undefined and to = the     *)
(* current value at that path.                                               *)
C18_EveryDirtyLeafReported ==
    (cf.rendered /\ cf.originalValues = Undefined) =>
        \A keys \in CfKeyLists :
            CfReduce(cf.dirtyFields, keys) = True =>
                CfHasEntry(keys, Undefined, CfReduce(cf.values, keys))

\* The paths of `values` that hold an array.
CfArrayFields ==
    {p \in CfKeyLists : CfReduce(cf.values, p).t = "array"}

\* The keys of changedFields at the path p or below it.
CfUnder(p) ==
    {q \in DOMAIN cf.changedFields :
        /\ Len(CfSplit(q)) >= Len(p)
        /\ SubSeq(CfSplit(q), 1, Len(p)) = p}

\* The original value getChangedFields compares the path p with.
CfOriginalAt(p) ==
    IF cf.originalValues = Undefined THEN Undefined
    ELSE CfReduce(cf.originalValues, p)

\* C19 as stated: an array-valued field gets at most one entry, keyed by the
\* field path, and no entry is keyed by a path through its indices.
C19_Original ==
    cf.rendered =>
        \A p \in CfArrayFields : CfUnder(p) \subseteq {CfJoin(p)}

(* C19: an array-valued field marked true in the dirty tree is compared as   *)
(* one structural unit: it has one entry, keyed by the field path and        *)
(* holding the whole array, exactly when the JSON texts of the array and of  *)
(* its original differ, and no entry below it. The differ follows the dirty  *)
(* tree and never the values: every entry at or below an array-valued field  *)
(* is keyed by a path marked true in the dirty tree, array-index paths       *)
(* included when the dirty tree holds an array there.                        *)
C19_ArrayComparedAtDirtyLeaf ==
    cf.rendered =>
        \A p \in CfArrayFields :
            /\ \A q \in CfUnder(p) : CfReduce(cf.dirtyFields, CfSplit(q)) = True
            /\ CfReduce(cf.dirtyFields, p) = True =>
                  /\ CfUnder(p) =
                        IF JSONStringify(CfReduce(cf.values, p))
                               # JSONStringify(CfOriginalAt(p))
                        THEN {CfJoin(p)} ELSE {}
                  /\ CfUnder(p) # {} =>
                        cf.changedFields[CfJoin(p)] =
                            [from |-> CfOriginalAt(p), to |-> CfReduce(cf.values, p)]

\* An array field marked true has its one entry, and an array field whose
\* dirty marker is itself an array has an entry keyed through index 0.
C19_Witness ==
    /\ cf.rendered
    /\ <<"a">> \in CfArrayFields /\ <<"b">> \in CfArrayFields
    /\ CfReduce(cf.dirtyFields, <<"a">>) = True
    /\ CfReduce(cf.dirtyFields, <<"b">>).t = "array"
    /\ CfUnder(<<"a">>) = {"a"}
    /\ CfUnder(<<"b">>) = {"b.0.c"}

(***************************************************************************)
(* Claims about the selection of ApiLogger                                 *)
(***************************************************************************)
(* C29: after any sequence of addApiLog, clearApiLogs (from a panel or     *)
(* from anywhere else), evictions and row clicks, the selected log of a    *)
(* panel is null or an entry present in the list the panel displays.       *)
C29_SelectedLogIsDisplayed ==
    \A c \in LogComponents :
        log.comps[c].mounted =>
            \/ log.comps[c].selectedLog = Null
            \/ \E k \in 1..Len(log.comps[c].logs) :
                    log.comps[c].logs[k] = log.comps[c].selectedLog

(***************************************************************************)
(* Claims about useClickOutside / useClickOutsideMultiple                  *)
(***************************************************************************)

\* The target of the last event lies in none of the elements the refs hold.
CoOutsideAll ==
    \A k \in DOMAIN co.current :
        \/ co.current[k] = NoElement
        \/ co.last.target \notin {n \in DomNodes : DomContains(co.current[k], n)}

\* C6 as stated: while enabled the handler is invoked on a mousedown or
\* touchstart if and only if the target is contained in none of the referenced
\* elements; when disabled it is never invoked.
C6_Original ==
    co.last # CoNoEvent =>
        (co.last.called # {} <=> (co.enabled /\ CoOutsideAll))

(* C6, amended: as stated for useClickOutsideMultiple, where a ref without   *)
(* an element is skipped; useClickOutside invokes the handler if and only if *)
(* its ref holds an element and the target is outside it.  The handler       *)
(* invoked is the one of the latest render.                                  *)
C6_ClickOutsideInvokesIffOutside ==
    co.last # CoNoEvent =>
        /\ co.last.called # {} <=>
              /\ co.enabled
              /\ CoOutsideAll
              /\ co.hook = "useClickOutside" => co.current[1] # NoElement
        /\ co.last.called \subseteq {co.handler}

\* A touchstart outside the one attached element of useClickOutsideMultiple,
\* whose other ref holds no element, invoked the handler.
C6_Witness ==
    /\ co.hook = "useClickOutsideMultiple"
    /\ co.last # CoNoEvent
    /\ co.last.type = "touchstart"
    /\ co.current = <<"modal", NoElement>>
    /\ co.last.target = "page"
    /\ co.last.called = {co.handler}

(***************************************************************************)
(* Claims about useEventListener                                           *)
(***************************************************************************)

ElDepsChanged ==
    <<evl.eventName, evl.element, evl.options>>'
        # <<evl.eventName, evl.element, evl.options>>

\* A render that changes the handler alone makes no DOM call and leaves the
\* registered listener as it is.
ElHandlerOnlyStep ==
    (evl'.handler # evl.handler /\ ~ElDepsChanged) =>
        /\ evl'.calls = <<>>
        /\ evl'.registry = evl.registry

\* A change of event name, target or options removes the old listener and
\* registers exactly one new one, for the new name and options.
ElResubscribeStep ==
    ElDepsChanged =>
        /\ evl'.calls = <<"removeEventListener", "addEventListener">>
        /\ Cardinality(evl'.registry) = 1
        /\ evl.registry \cap evl'.registry = {}
        /\ \A l \in evl'.registry :
              l.type = evl'.eventName /\ l.options = evl'.options

\* Every delivered event reaches the handler of the latest render, once.
ElDeliveredToNewest ==
    evl.last # ElNoEvent =>
        evl.last.received =
            IF \E l \in evl.registry :
                    l.target = evl.last.target /\ l.type = evl.last.type
            THEN {evl.handler} ELSE {}

(* C7: a change of handler identity alone causes no removeEventListener or   *)
(* addEventListener call, yet every event delivered afterwards reaches the   *)
(* newest handler; a change of event name, target or options removes the old *)
(* listener and registers exactly one new listener.                          *)
C7_EventListenerStableHandler ==
    /\ [][ElHandlerOnlyStep /\ ElResubscribeStep]_vars
    /\ [](ElDeliveredToNewest /\ Cardinality(evl.registry) = 1)

\* The listener of the mount is still the registered one, the handler has
\* changed since, and an event has reached the new handler.
C7_Witness ==
    /\ evl.handler = "handler2"
    /\ evl.registered.gen = 0
    /\ evl.last # ElNoEvent
    /\ evl.last.received = {"handler2"}

(* C30: called with an element ref, useEventListener registers its listener  *)
(* on an element of the ref and on no other target; it is never registered   *)
(* on window, whatever the ref held when the effect ran, null included.      *)
C30_RefListenerNeverOnWindow ==
    (evl.mounted /\ evl.element.kind = "ref") =>
        \A l \in evl.registry : l.target \notin {"window", "document"}

(***************************************************************************)
(* Claims about useIntersectionObserver                                    *)
(***************************************************************************)

IoFrozen == io.freezeOnceVisible /\ io.entry # NoEntry /\ io.entry.isIntersecting

CbSettled == \A i \in 1..Len(cb.calls) : cb.calls[i].write # "pending"

(* C28: after any sequence of copy() and reset() calls whose clipboard       *)
(* writes complete in any order, copiedText is the text of the most recently *)
(* issued copy if that copy succeeded and no reset followed it, and null     *)
(* otherwise.  cb.resetSince tells that reset was called after the most      *)
(* recently issued copy was issued and, if its write was pending, settled.   *)
C28_CopiedTextIsLatestCopy ==
    (cb.calls # <<>> /\ CbSettled) =>
        LET latest == cb.calls[Len(cb.calls)]
        IN  cb.copiedText =
                IF latest.write = "ok" /\ ~cb.resetSince
                THEN Str(latest.text) ELSE Null

(***************************************************************************)
(* Claims about usePrevious                                                *)
(***************************************************************************)

(* C10: the first render returns undefined and every later render returns    *)
(* the value passed on the render before it, also when the value did not     *)
(* change between renders.                                                   *)
C10_PreviousLagsOneRender ==
    \A k \in 1..Len(pv.renders) :
        pv.renders[k].returned =
            IF k = 1 THEN Undefined ELSE pv.renders[k - 1].value

\* Two renders with the same value, then one with another value.
C10_Witness ==
    /\ Len(pv.renders) = 3
    /\ pv.renders[1].value = Str("a")
    /\ pv.renders[2].value = Str("a")
    /\ pv.renders[3].value = Str("b")
    /\ pv.renders[3].returned = Str("a")

(***************************************************************************)
(* Claims about the timers of useDebounce and useThrottle                  *)
(***************************************************************************)

(* C11: a useDebounce or useThrottle instance has at most one pending timer  *)
(* callback in every reachable state, however value changes, delay or        *)
(* interval changes and timer firings interleave.                            *)
C11_AtMostOnePendingTimer ==
    /\ Cardinality(db.timers) <= 1
    /\ thr # ThrIdle => Cardinality(thr.timers) <= 1

\* A debounce timer armed by the third update, after an earlier one fired.
C11_Witness ==
    /\ db # DbIdle
    /\ Len(db.updates) = 3
    /\ Len(db.commits) = 1
    /\ \E t \in db.timers : t.id = 3

(***************************************************************************)
(* Claims about mounting and unmounting                                    *)
(***************************************************************************)

\* The timers of the two timer hooks: those of the current dependencies while
\* mounted, none afterwards.
LifeTimers ==
    /\ db # DbIdle =>
          IF db.mounted
          THEN \A t \in db.timers :
                  /\ t.val = db.value /\ t.id = Len(db.updates)
                  /\ t.due = db.updates[t.id].at + db.delay
          ELSE db.timers = {}
    /\ thr # ThrIdle =>
          IF thr.mounted
          THEN \A t \in thr.timers : t.val = thr.value
          ELSE thr.timers = {}

\* The listeners of the subscribing hooks: those of the current dependencies
\* while mounted, none afterwards, when no event invokes a handler.
LifeListeners ==
    /\ evl # ElIdle =>
          IF evl.mounted
          THEN /\ evl.registry = {evl.registered}
               /\ evl.registered.type = evl.eventName
               /\ evl.registered.options = evl.options
               /\ evl.element.kind = "document" => evl.registered.target = "document"
               /\ evl.element.kind \in {"undefined", "element"} =>
                      evl.registered.target = "window"
          ELSE /\ evl.registry = {}
               /\ evl.last # ElNoEvent => evl.last.received = {}
    /\ co # CoIdle =>
          IF co.mounted
          THEN co.listeners = CoSubscribe(co.enabled, co.handler)
          ELSE /\ co.listeners = {}
               /\ co.last # CoNoEvent => co.last.called = {}
    /\ mq # MqIdle =>
          IF mq.mounted
          THEN mq.listeners = {mq.registered} /\ mq.registered.query = mq.query
          ELSE mq.listeners = {} /\ mq.last.invoked = {}
    /\ ws # WsIdle =>
          IF ws.mounted
          THEN ws.listeners = {ws.registered} /\ ws.registered.type = "resize"
          ELSE ws.listeners = {} /\ ws.last = {}
    /\ st # StIdle =>
          /\ st.listeners =
                UNION {StSubscribe(st.area, i, st.inst[i].tab) :
                          i \in {j \in StInstances : st.inst[j].mounted}}
          /\ \A i \in StInstances : ~st.inst[i].mounted => st.reads[i] = 0

\* No step commits a value to an instance that is unmounted.
LifeNoCommitStep ==
    /\ (db # DbIdle /\ ~db.mounted) =>
          db'.commits = db.commits /\ db'.debouncedValue = db.debouncedValue
    /\ (thr # ThrIdle /\ ~thr.mounted) =>
          thr'.commits = thr.commits /\ thr'.throttledValue = thr.throttledValue
    /\ (mq # MqIdle /\ ~mq.mounted /\ ~mq'.mounted) => mq'.matches = mq.matches
    /\ (ws # WsIdle /\ ~ws.mounted /\ ~ws'.mounted) => ws'.windowSize = ws.windowSize
    /\ st # StIdle =>
          \A i \in StInstances :
              (~st.inst[i].mounted /\ ~st'.inst[i].mounted) => st'.inst[i] = st.inst[i]

(* C13: while mounted, each subscribing hook (useEventListener, the click-   *)
(* outside hooks, useMediaQuery, useWindowSize, the storage hooks, the       *)
(* timers of useDebounce and useThrottle) has exactly the listeners or       *)
(* timers of its current dependencies registered; after unmount it has none, *)
(* none of its handlers is invoked and no value is committed, for any        *)
(* sequence of mounts, dependency changes and unmounts.                      *)
C13_SubscriptionsFollowMount ==
    /\ [](LifeTimers /\ LifeListeners)
    /\ [][LifeNoCommitStep]_vars

\* An unmounted useEventListener, after a resubscription, whose former
\* target receives an event of its former type.
C13_Witness ==
    /\ evl # ElIdle
    /\ ~evl.mounted
    /\ evl.registered.gen = 1
    /\ evl.last # ElNoEvent
    /\ evl.last.target = evl.registered.target
    /\ evl.last.type = evl.registered.type
    /\ evl.last.received = {}

(***************************************************************************)
(* Claims about the pure utilities                                         *)
(***************************************************************************)
(* C20: no pure utility propagates an exception: for every input of its    *)
(* declared parameter types (mask with any integer start and end, repeat   *)
(* with any integer count, formatNumber with any integer decimals, isJSON  *)
(* with any string) the call returns a value instead of throwing.          *)
C20_NoUtilityThrows == pu.outcome.t # "throw"

(***************************************************************************)
(* Claims about formatPhoneNumber                                          *)
(***************************************************************************)
(* C21: formatPhoneNumber is idempotent: formatting a formatted value      *)
(* gives the same value, for every input, formatted inputs and inputs of   *)
(* more than 11 digits included.                                           *)
C21_FormatPhoneNumberIdempotent ==
    (pu.call.fn = "formatPhoneNumber" /\ pu.again # NoOutcome) =>
        pu.again = pu.outcome

\* An input of more than 11 digits that was typed with hyphens, formatted twice.
C21_Witness ==
    /\ pu.call.fn = "formatPhoneNumber" /\ pu.again # NoOutcome
    /\ Len(PhCleaned(pu.call.value)) > 11
    /\ pu.call.value # PhCleaned(pu.call.value)
    /\ pu.outcome.value # pu.call.value
    /\ pu.again.value = "012-3456-7890"

(***************************************************************************)
(* Claims about calculateDiscount / calculateDiscountedPrice               *)
(***************************************************************************)
\* The distance, in hundredths, of the price the round trip gives from the
\* discounted price it started from.
DcError ==
    LET diff == pu.again.value - 100 * pu.call.discountedPrice
    IN  IF diff < 0 THEN 0 - diff ELSE diff

DcRoundTripDone == pu.call.fn = "calculateDiscount" /\ pu.again # NoOutcome

\* C22 as stated: the round trip gives d back to within the rounding of a price
\* (a hundredth).
C22_Original == DcRoundTripDone => DcError <= 1

(* C22: for o > 0 and 0 <= d <= o, calculateDiscountedPrice(o,             *)
(* calculateDiscount(o, d)) is within o / 20000 + 0.005 of d: the          *)
(* percentage is rounded to two decimals, which moves the price by up to   *)
(* 0.005% of o, and the price is rounded to two decimals.                  *)
C22_DiscountRoundTrip ==
    DcRoundTripDone => 200 * DcError <= pu.call.originalPrice + 100

\* A round trip that loses a whole unit: 30000 and 1 give 100% and then 0.
C22_Witness ==
    /\ DcRoundTripDone
    /\ pu.call.originalPrice = 30000 /\ pu.call.discountedPrice = 1
    /\ pu.outcome.value = 10000 /\ pu.again.value = 0

(***************************************************************************)
(* Claims about FormDevTools mock generation                               *)
(***************************************************************************)
(* C25: isGenerating is true exactly while a handleGenerateMock run is in  *)
(* flight, at most one run is in flight at a time, isGenerating is false   *)
(* again when the run has ended, by completion or by a throw of            *)
(* generateMock, setValue or trigger, and a throw leaves generateError set.*)
C25_GeneratingWhileInFlight ==
    /\ gm.isGenerating <=> gm.runs # <<>>
    /\ Len(gm.runs) <= 1
    /\ gm.last # NoRun => ~gm.isGenerating
    /\ gm.last.how = "threw" => gm.generateError # Null

(***************************************************************************)
(* Claims about IdSelector                                                 *)
(***************************************************************************)
(* C27: the login button of an account is disabled for the whole time its  *)
(* own onLogin call is in flight, whatever the logins of other accounts    *)
(* do meanwhile, and the loading marker is null whenever no login is in    *)
(* flight, after a rejected onLogin too.                                   *)
C27_ButtonDisabledWhileInFlight ==
    /\ \A run \in ids.inflight : IdsDisabled(run.index)
    /\ ids.inflight = {} => ids.loading = Null

(***************************************************************************)
(* Specifications: one per hook or store.                                  *)
(***************************************************************************)

InitDebounce ==
    /\ now = 0
    /\ pu = PuIdle /\ gm = GmIdle /\ ids = IdsIdle
    /\ mq = MqIdle /\ ws = WsIdle
    /\ DbInit
    /\ thr = ThrIdle /\ st = StIdle /\ log = LogIdle /\ cf = CfIdle /\ co = CoIdle
    /\ evl = ElIdle /\ io = IoIdle /\ cb = CbIdle /\ pv = PvIdle

SpecDebounce == InitDebounce /\ [][DbNext]_vars

InitStorage ==
    /\ now = 0
    /\ pu = PuIdle /\ gm = GmIdle /\ ids = IdsIdle
    /\ mq = MqIdle /\ ws = WsIdle
    /\ StInit
    /\ db = DbIdle /\ thr = ThrIdle /\ log = LogIdle /\ cf = CfIdle /\ co = CoIdle
    /\ evl = ElIdle /\ io = IoIdle /\ cb = CbIdle /\ pv = PvIdle

SpecStorage == InitStorage /\ [][StNext]_vars

InitLog ==
    /\ now = 0
    /\ pu = PuIdle /\ gm = GmIdle /\ ids = IdsIdle
    /\ mq = MqIdle /\ ws = WsIdle
    /\ LogInit
    /\ db = DbIdle /\ thr = ThrIdle /\ st = StIdle /\ cf = CfIdle /\ co = CoIdle
    /\ evl = ElIdle /\ io = IoIdle /\ cb = CbIdle /\ pv = PvIdle

SpecLog == InitLog /\ [][LogNext]_vars

InitChangedFields ==
    /\ now = 0
    /\ pu = PuIdle /\ gm = GmIdle /\ ids = IdsIdle
    /\ mq = MqIdle /\ ws = WsIdle
    /\ CfInit
    /\ db = DbIdle /\ thr = ThrIdle /\ st = StIdle /\ log = LogIdle /\ co = CoIdle
    /\ evl = ElIdle /\ io = IoIdle /\ cb = CbIdle /\ pv = PvIdle

SpecChangedFields == InitChangedFields /\ [][CfNext]_vars

InitClickOutside ==
    /\ now = 0
    /\ pu = PuIdle /\ gm = GmIdle /\ ids = IdsIdle
    /\ mq = MqIdle /\ ws = WsIdle
    /\ CoInit
    /\ db = DbIdle /\ thr = ThrIdle /\ st = StIdle /\ log = LogIdle /\ cf = CfIdle
    /\ evl = ElIdle /\ io = IoIdle /\ cb = CbIdle /\ pv = PvIdle

SpecClickOutside == InitClickOutside /\ [][CoNext]_vars

InitEventListener ==
    /\ now = 0
    /\ pu = PuIdle /\ gm = GmIdle /\ ids = IdsIdle
    /\ mq = MqIdle /\ ws = WsIdle
    /\ ElInit
    /\ db = DbIdle /\ thr = ThrIdle /\ st = StIdle /\ log = LogIdle /\ cf = CfIdle
    /\ co = CoIdle /\ io = IoIdle /\ cb = CbIdle /\ pv = PvIdle

SpecEventListener == InitEventListener /\ [][ElNext]_vars

InitIntersection ==
    /\ now = 0
    /\ pu = PuIdle /\ gm = GmIdle /\ ids = IdsIdle
    /\ mq = MqIdle /\ ws = WsIdle
    /\ IoInit
    /\ db = DbIdle /\ thr = ThrIdle /\ st = StIdle /\ log = LogIdle /\ cf = CfIdle
    /\ co = CoIdle /\ evl = ElIdle /\ cb = CbIdle /\ pv = PvIdle

SpecIntersection == InitIntersection /\ [][IoNext]_vars

InitClipboard ==
    /\ now = 0
    /\ pu = PuIdle /\ gm = GmIdle /\ ids = IdsIdle
    /\ mq = MqIdle /\ ws = WsIdle
    /\ CbInit
    /\ db = DbIdle /\ thr = ThrIdle /\ st = StIdle /\ log = LogIdle /\ cf = CfIdle
    /\ co = CoIdle /\ evl = ElIdle /\ io = IoIdle /\ pv = PvIdle

SpecClipboard == InitClipboard /\ [][CbNext]_vars

InitPrevious ==
    /\ now = 0
    /\ pu = PuIdle /\ gm = GmIdle /\ ids = IdsIdle
    /\ mq = MqIdle /\ ws = WsIdle
    /\ PvInit
    /\ db = DbIdle /\ thr = ThrIdle /\ st = StIdle /\ log = LogIdle /\ cf = CfIdle
    /\ co = CoIdle /\ evl = ElIdle /\ io = IoIdle /\ cb = CbIdle

SpecPrevious == InitPrevious /\ [][PvNext]_vars

InitThrottle ==
    /\ now = 0
    /\ pu = PuIdle /\ gm = GmIdle /\ ids = IdsIdle
    /\ mq = MqIdle /\ ws = WsIdle
    /\ ThrInit
    /\ db = DbIdle /\ st = StIdle /\ log = LogIdle /\ cf = CfIdle /\ co = CoIdle
    /\ evl = ElIdle /\ io = IoIdle /\ cb = CbIdle /\ pv = PvIdle

\* The event loop runs a due timer callback, and time passes.
SpecThrottle ==
    InitThrottle /\ [][ThrNext]_vars /\ WF_vars(ThrFire) /\ WF_vars(ThrTick)

\* One timer hook, of either kind.
InitTimers == InitDebounce \/ InitThrottle

TimersNext ==
    \/ db # DbIdle /\ DbNext
    \/ thr # ThrIdle /\ ThrNext

SpecTimers == InitTimers /\ [][TimersNext]_vars

InitMediaQuery ==
    /\ now = 0
    /\ pu = PuIdle /\ gm = GmIdle /\ ids = IdsIdle
    /\ MqInit
    /\ db = DbIdle /\ thr = ThrIdle /\ st = StIdle /\ log = LogIdle /\ cf = CfIdle
    /\ co = CoIdle /\ evl = ElIdle /\ io = IoIdle /\ cb = CbIdle /\ pv = PvIdle
    /\ ws = WsIdle

SpecMediaQuery == InitMediaQuery /\ [][MqNext]_vars

InitWindowSize ==
    /\ now = 0
    /\ pu = PuIdle /\ gm = GmIdle /\ ids = IdsIdle
    /\ WsInit
    /\ db = DbIdle /\ thr = ThrIdle /\ st = StIdle /\ log = LogIdle /\ cf = CfIdle
    /\ co = CoIdle /\ evl = ElIdle /\ io = IoIdle /\ cb = CbIdle /\ pv = PvIdle
    /\ mq = MqIdle

SpecWindowSize == InitWindowSize /\ [][WsNext]_vars

InitStorageTabs ==
    /\ now = 0
    /\ pu = PuIdle /\ gm = GmIdle /\ ids = IdsIdle
    /\ mq = MqIdle /\ ws = WsIdle
    /\ StTabsInit
    /\ db = DbIdle /\ thr = ThrIdle /\ log = LogIdle /\ cf = CfIdle
    /\ co = CoIdle /\ evl = ElIdle /\ io = IoIdle /\ cb = CbIdle /\ pv = PvIdle

SpecStorageTabs == InitStorageTabs /\ [][StTabsNext]_vars

\* One subscribing hook of any kind, through mounts and unmounts.
InitLifecycle ==
    \/ InitDebounce \/ InitThrottle \/ InitStorage \/ InitClickOutside
    \/ InitEventListener \/ InitMediaQuery \/ InitWindowSize

LifecycleNext ==
    \/ db # DbIdle /\ DbNext
    \/ db # DbIdle /\ DbUnmount
    \/ thr # ThrIdle /\ ThrNext
    \/ thr # ThrIdle /\ ThrUnmount
    \/ st # StIdle /\ StNext
    \/ co # CoIdle /\ CoNext
    \/ co # CoIdle /\ CoUnmount
    \/ co # CoIdle /\ \E enabled \in BOOLEAN, handler \in CoHandlers :
                          CoRemount(enabled, handler)
    \/ evl # ElIdle /\ ElNext
    \/ evl # ElIdle /\ ElUnmount
    \/ evl # ElIdle /\ \E eventName \in ElEventNames, element \in ElElements :
                           ElRemount(eventName, "handler1", element, "undefined")
    \/ mq # MqIdle /\ MqNext
    \/ ws # WsIdle /\ WsNext

SpecLifecycle == InitLifecycle /\ [][LifecycleNext]_vars

InitStorageFailures ==
    /\ now = 0
    /\ pu = PuIdle /\ gm = GmIdle /\ ids = IdsIdle
    /\ mq = MqIdle /\ ws = WsIdle
    /\ StFailInit
    /\ db = DbIdle /\ thr = ThrIdle /\ log = LogIdle /\ cf = CfIdle
    /\ co = CoIdle /\ evl = ElIdle /\ io = IoIdle /\ cb = CbIdle /\ pv = PvIdle

SpecStorageFailures == InitStorageFailures /\ [][StFailNext]_vars

SpecApiLogger == InitLog /\ [][LogPanelNext]_vars

InitPure ==
    /\ now = 0
    /\ gm = GmIdle /\ ids = IdsIdle
    /\ PuInit
    /\ db = DbIdle /\ thr = ThrIdle /\ st = StIdle /\ log = LogIdle /\ cf = CfIdle
    /\ co = CoIdle /\ evl = ElIdle /\ io = IoIdle /\ cb = CbIdle /\ pv = PvIdle
    /\ mq = MqIdle /\ ws = WsIdle

SpecPure == InitPure /\ [][PuNext]_vars

InitPhone ==
    /\ now = 0
    /\ gm = GmIdle /\ ids = IdsIdle
    /\ PhInit
    /\ db = DbIdle /\ thr = ThrIdle /\ st = StIdle /\ log = LogIdle /\ cf = CfIdle
    /\ co = CoIdle /\ evl = ElIdle /\ io = IoIdle /\ cb = CbIdle /\ pv = PvIdle
    /\ mq = MqIdle /\ ws = WsIdle

SpecPhone == InitPhone /\ [][PhNext]_vars

InitDiscount ==
    /\ now = 0
    /\ gm = GmIdle /\ ids = IdsIdle
    /\ DcInit
    /\ db = DbIdle /\ thr = ThrIdle /\ st = StIdle /\ log = LogIdle /\ cf = CfIdle
    /\ co = CoIdle /\ evl = ElIdle /\ io = IoIdle /\ cb = CbIdle /\ pv = PvIdle
    /\ mq = MqIdle /\ ws = WsIdle

SpecDiscount == InitDiscount /\ [][DcNext]_vars

SpecStorageUpdates == InitStorage /\ [][StUpdatesNext]_vars

InitGenerateMock ==
    /\ now = 0
    /\ pu = PuIdle /\ ids = IdsIdle
    /\ GmInit
    /\ db = DbIdle /\ thr = ThrIdle /\ st = StIdle /\ log = LogIdle /\ cf = CfIdle
    /\ co = CoIdle /\ evl = ElIdle /\ io = IoIdle /\ cb = CbIdle /\ pv = PvIdle
    /\ mq = MqIdle /\ ws = WsIdle

SpecGenerateMock == InitGenerateMock /\ [][GmNext]_vars

InitIdSelector ==
    /\ now = 0
    /\ pu = PuIdle /\ gm = GmIdle
    /\ IdsInit
    /\ db = DbIdle /\ thr = ThrIdle /\ st = StIdle /\ log = LogIdle /\ cf = CfIdle
    /\ co = CoIdle /\ evl = ElIdle /\ io = IoIdle /\ cb = CbIdle /\ pv = PvIdle
    /\ mq = MqIdle /\ ws = WsIdle

SpecIdSelector == InitIdSelector /\ [][IdsNext]_vars

SpecApiLoggerSelect == InitLog /\ [][LogSelectNext]_vars

=============================================================================
